---- MODULE Spec2Model ----
(***************************************************************************)
(* A model of the openxla-workspace tool: the repository registry, the     *)
(* pin manifest (sync_deps.py) and its persisted form, the recursive       *)
(* checkout and sync walks, and the roll actions that patch one pin.       *)
(*                                                                         *)
(* Python strings are sequences of characters, Python dicts are sequences  *)
(* of <<key, value>> pairs in insertion order, and a manifest file is the  *)
(* source text of its three dict displays.                                 *)
(***************************************************************************)
EXTENDS Naturals, Sequences, FiniteSets, TLC

(***************************************************************************)
(* Bounds of the model.                                                    *)
(***************************************************************************)
\* Number of distinct plain revision identifiers (git hashes).
NumRevs == 2
\* Number of commands run one after the other on the same workspace.
MaxRuns == 2
\* Number of descriptors constructed one after the other.
MaxRegs == 4
\* Number of init commands run one after the other.
MaxInits == 3
\* Depth of the directory tree init is run in.
MaxPathLen == 2
\* Cap on the depth of the call stack (only a non-terminating walk meets it).
MaxDepth == 8

(***************************************************************************)
(* Characters and strings.                                                 *)
(***************************************************************************)
Quote == "\""
Backslash == "\\"
\* One character outside the Basic Multilingual Plane (U+1F600) and the two
\* surrogate code points json.dumps escapes it to.
Astral == "U+1F600"
HiSurrogate == "U+D83D"
LoSurrogate == "U+DE00"

Digits == <<"1", "2", "3", "4">>

\* git revision identifiers, as rev-parse and ls-remote print them.
Revs == { <<Digits[i]>> : i \in 1..NumRevs }

NextRev(v) == LET i == CHOOSE j \in 1..NumRevs : v = <<Digits[j]>>
              IN <<Digits[(i % NumRevs) + 1]>>

\* Strings that need escaping when written, beside the plain revisions.
OddStrings == { <<Quote, Backslash>>, <<Astral>> }

\* re.search(pattern, text) for a pattern without metacharacters: the pattern
\* occurs somewhere in the text.
Search(pattern, text) ==
  \E i \in 1..(Len(text) + 1) :
    /\ i + Len(pattern) - 1 <= Len(text)
    /\ SubSeq(text, i, i + Len(pattern) - 1) = pattern

(***************************************************************************)
(* Python dicts: insertion-ordered, keys unique, equality ignores order.   *)
(***************************************************************************)
DictKeys(d) == { d[i][1] : i \in 1..Len(d) }

DictHas(d, k) == \E i \in 1..Len(d) : d[i][1] = k

DictGet(d, k) == d[CHOOSE i \in 1..Len(d) : d[i][1] = k][2]

DictSet(d, k, v) ==
  IF DictHas(d, k)
  THEN [i \in 1..Len(d) |-> IF d[i][1] = k THEN <<k, v>> ELSE d[i]]
  ELSE Append(d, <<k, v>>)

DictItems(d) == { d[i] : i \in 1..Len(d) }

DictEq(d, e) == DictItems(d) = DictItems(e)

RECURSIVE DictUpdate(_, _)
DictUpdate(d, e) ==
  IF e = <<>> THEN d
  ELSE DictUpdate(DictSet(d, Head(e)[1], Head(e)[2]), Tail(e))

(***************************************************************************)
(* The manifest file: json.dumps writes the three dicts as Python source,  *)
(* and importing the file evaluates that source again.                     *)
(***************************************************************************)
\* json.dumps of one character of a str (ensure_ascii): the source tokens.
JsonEscapeChar(c) ==
  CASE c = Quote -> << "\\\"" >>
    [] c = Backslash -> << "\\\\" >>
    [] c = Astral -> << "\\ud83d", "\\ude00" >>
    [] c = HiSurrogate -> << "\\ud83d" >>
    [] c = LoSurrogate -> << "\\ude00" >>
    [] OTHER -> << c >>

RECURSIVE JsonDumpsStr(_)
JsonDumpsStr(s) ==
  IF s = <<>> THEN <<>> ELSE JsonEscapeChar(Head(s)) \o JsonDumpsStr(Tail(s))

\* json.dumps of a dict with str values, and of one with int values.
JsonDumpsStrDict(d) ==
  [i \in 1..Len(d) |-> <<JsonDumpsStr(d[i][1]), JsonDumpsStr(d[i][2])>>]

JsonDumpsIntDict(d) ==
  [i \in 1..Len(d) |-> <<JsonDumpsStr(d[i][1]), d[i][2]>>]

\* The Python compiler on one token of a string literal: every \uXXXX escape
\* is one code point of its own (a surrogate pair is not joined).
PyUnescapeToken(tok) ==
  CASE tok = "\\\"" -> Quote
    [] tok = "\\\\" -> Backslash
    [] tok = "\\ud83d" -> HiSurrogate
    [] tok = "\\ude00" -> LoSurrogate
    [] OTHER -> tok

PyEvalStr(src) == [i \in 1..Len(src) |-> PyUnescapeToken(src[i])]

RECURSIVE PyEvalStrDict(_)
PyEvalStrDict(src) ==
  IF src = <<>> THEN <<>>
  ELSE LET n == Len(src)
       IN DictSet(PyEvalStrDict(SubSeq(src, 1, n - 1)),
                  PyEvalStr(src[n][1]), PyEvalStr(src[n][2]))

RECURSIVE PyEvalIntDict(_)
PyEvalIntDict(src) ==
  IF src = <<>> THEN <<>>
  ELSE LET n == Len(src)
       IN DictSet(PyEvalIntDict(SubSeq(src, 1, n - 1)),
                  PyEvalStr(src[n][1]), src[n][2])

\* No sync_deps.py in the directory.
NoFile ==
  [exists |-> FALSE, PINNED_VERSIONS |-> <<>>, ORIGINS |-> <<>>,
   SUBMODULES |-> <<>>]

\* The write branch of process_pin_file: the header and the appended
\* bootstrap script are the same text in every file and are left out.
WritePinFile(pinned_versions, origins, submodules) ==
  [exists |-> TRUE,
   PINNED_VERSIONS |-> JsonDumpsStrDict(pinned_versions),
   ORIGINS |-> JsonDumpsStrDict(origins),
   SUBMODULES |-> JsonDumpsIntDict(submodules)]

\* The load branch of process_pin_file: empty dicts without a file, else the
\* module's three attributes.
LoadPinFile(pin_file) ==
  IF ~pin_file.exists
  THEN [pinned_versions |-> <<>>, origins |-> <<>>, submodules |-> <<>>]
  ELSE [pinned_versions |-> PyEvalStrDict(pin_file.PINNED_VERSIONS),
        origins |-> PyEvalStrDict(pin_file.ORIGINS),
        submodules |-> PyEvalIntDict(pin_file.SUBMODULES)]

\* What a callback hands back to process_pin_file: whether it raised, what it
\* returned, and the three dicts as it left them (it mutates them in place).
CallbackResult(raised, ret, pinned_versions, origins, submodules) ==
  [raised |-> raised, ret |-> ret, pinned_versions |-> pinned_versions,
   origins |-> origins, submodules |-> submodules]

\* A variant of the callback that introduces a pin it does not find.
SetPinCallbackIntroducing(dep_name, revision, pinned_versions, origins, submodules) ==
  IF /\ DictHas(pinned_versions, dep_name)
     /\ DictGet(pinned_versions, dep_name) = revision
  THEN CallbackResult("none", FALSE, pinned_versions, origins, submodules)
  ELSE CallbackResult("none", TRUE,
                      DictSet(pinned_versions, dep_name, revision),
                      origins, submodules)

\* The callback of set_pin_revision.
SetPinCallback(dep_name, revision, pinned_versions, origins, submodules) ==
  IF ~DictHas(pinned_versions, dep_name)
  THEN CallbackResult("CLIError", FALSE, pinned_versions, origins, submodules)
  ELSE IF DictGet(pinned_versions, dep_name) = revision
  THEN CallbackResult("none", FALSE, pinned_versions, origins, submodules)
  ELSE CallbackResult("none", TRUE,
                      DictSet(pinned_versions, dep_name, revision),
                      origins, submodules)

\* The callback of read_existing_pins: it copies the pinned revisions and
\* returns None.
ReadPinsCallback(pinned_versions, origins, submodules) ==
  CallbackResult("none", FALSE, pinned_versions, origins, submodules)

\* A callback that leaves the dicts m in place of the ones it was given and
\* asks for the file to be written.
FillCallback(m, pinned_versions, origins, submodules) ==
  CallbackResult("none", TRUE, m.pinned_versions, m.origins, m.submodules)

\* RepoInfo.dir(ws, validate=True): git.toplevel runs git in the directory,
\* which must exist for the process to start at all.
RepoDir(state) ==
  CASE state = "repo" -> "none"
    [] state = "plain" -> "CLIError"
    [] OTHER -> "FileNotFoundError"

\* The position of a revision in the history of its repository.
RevNo(v) == CHOOSE j \in 1..NumRevs : v = <<Digits[j]>>

\* git.remote_branches_containing(d, ref): the remote tracking branch holds
\* the revisions up to its tip.
RemoteBranchesContaining(tip, tracking_branch, ref) ==
  IF RevNo(ref) <= RevNo(tip) THEN { <<"origin", tracking_branch>> } ELSE {}

\* update_dep: the pin of the dependency becomes the revision its working
\* tree is at, and with require_upstream that revision must be on the remote
\* tracking branch.
UpdateDep(dirstate, heads, tips, pin_dict, dep_repo, require_upstream) ==
  IF RepoDir(dirstate[dep_repo.name]) # "none"
  THEN [raised |-> RepoDir(dirstate[dep_repo.name]), pin_dict |-> pin_dict]
  ELSE LET head_revision == heads[dep_repo.name]
           pinned == DictSet(pin_dict, dep_repo.name, head_revision)
           containing_branches ==
             RemoteBranchesContaining(tips[dep_repo.name],
                                      dep_repo.tracking_branch, head_revision)
       IN IF /\ require_upstream
             /\ <<"origin", dep_repo.tracking_branch>> \notin containing_branches
          THEN [raised |-> "CLIError", pin_dict |-> pinned]
          ELSE [raised |-> "none", pin_dict |-> pinned]

\* The callback of update, from the i-th dependency on: it works on the
\* dicts process_pin_file loaded and only ever sets entries in them.
RECURSIVE UpdateCallback(_, _, _, _, _)
UpdateCallback(c, i, pinned_versions, origins, submodules) ==
  IF i > Len(c.repo.deps)
  THEN CallbackResult("none", TRUE, pinned_versions, origins, submodules)
  ELSE LET dep_name == c.repo.deps[i]
       IN IF ~DictHas(c.all_repos, dep_name)
          THEN CallbackResult("KeyError", FALSE, pinned_versions, origins,
                              submodules)
          ELSE LET dep_repo == DictGet(c.all_repos, dep_name)
                   got == UpdateDep(c.dirstate, c.heads, c.tips,
                                    pinned_versions, dep_repo,
                                    c.require_upstream)
               IN IF got.raised # "none"
                  THEN CallbackResult(got.raised, FALSE, got.pin_dict,
                                      origins, submodules)
                  ELSE UpdateCallback(
                         c, i + 1, got.pin_dict,
                         DictSet(origins, dep_name, dep_repo.ro_url),
                         IF dep_repo.submodules
                         THEN DictSet(submodules, dep_name, 1)
                         ELSE submodules)

\* The callbacks handed to process_pin_file, as values.
SetPinClosure(dep_name, revision) ==
  [kind |-> "set_pin_revision", dep_name |-> dep_name, revision |-> revision]
ReadPinsClosure == [kind |-> "read_existing_pins"]
FillClosure(m) == [kind |-> "fill", m |-> m]
UpdateClosure(all_repos, dirstate, heads, tips, repo, require_upstream) ==
  [kind |-> "update", all_repos |-> all_repos, dirstate |-> dirstate,
   heads |-> heads, tips |-> tips, repo |-> repo,
   require_upstream |-> require_upstream]

\* callback(pinned_versions=..., origins=..., submodules=...).
CallCallback(callback, pinned_versions, origins, submodules) ==
  CASE callback.kind = "set_pin_revision" ->
         SetPinCallback(callback.dep_name, callback.revision,
                        pinned_versions, origins, submodules)
    [] callback.kind = "read_existing_pins" ->
         ReadPinsCallback(pinned_versions, origins, submodules)
    [] callback.kind = "fill" ->
         FillCallback(callback.m, pinned_versions, origins, submodules)

\* process_pin_file(repo_top, callback): the outcome and the file afterwards.
ProcessPinFile(pin_file, callback) ==
  LET m == LoadPinFile(pin_file)
      r == CallCallback(callback, m.pinned_versions, m.origins, m.submodules)
  IN IF r.raised # "none"
     THEN [raised |-> r.raised, ret |-> FALSE, wrote |-> FALSE,
           file |-> pin_file, dicts |-> r]
     ELSE IF r.ret
     THEN [raised |-> "none", ret |-> TRUE, wrote |-> TRUE,
           file |-> WritePinFile(r.pinned_versions, r.origins, r.submodules),
           dicts |-> r]
     ELSE [raised |-> "none", ret |-> FALSE, wrote |-> FALSE,
           file |-> pin_file, dicts |-> r]

\* set_pin_revision(repo_top, dep_name, revision).
SetPinRevision(pin_file, dep_name, revision) ==
  ProcessPinFile(pin_file, SetPinClosure(dep_name, revision))

\* A variant that writes whatever the callback has put into the dicts, also
\* when the callback raised.
ProcessPinFileUpdateEager(pin_file, callback) ==
  LET m == LoadPinFile(pin_file)
      r == UpdateCallback(callback, 1, m.pinned_versions, m.origins,
                          m.submodules)
  IN [raised |-> r.raised, ret |-> r.raised = "none", wrote |-> TRUE,
      file |-> WritePinFile(r.pinned_versions, r.origins, r.submodules),
      dicts |-> r]

\* process_pin_file(repo_top, callback) with the callback of update.
ProcessPinFileUpdate(pin_file, callback) ==
  LET m == LoadPinFile(pin_file)
      r == UpdateCallback(callback, 1, m.pinned_versions, m.origins,
                          m.submodules)
  IN IF r.raised # "none"
     THEN [raised |-> r.raised, ret |-> FALSE, wrote |-> FALSE,
           file |-> pin_file, dicts |-> r]
     ELSE [raised |-> "none", ret |-> TRUE, wrote |-> TRUE,
           file |-> WritePinFile(r.pinned_versions, r.origins, r.submodules),
           dicts |-> r]

\* update(ws, repo, repo_top, require_upstream=...).
Update(all_repos, dirstate, heads, tips, pin_file, repo, require_upstream) ==
  IF repo.deps = <<>>
  THEN [raised |-> "none", ret |-> FALSE, wrote |-> FALSE, file |-> pin_file,
        dicts |-> LoadPinFile(NoFile)]
  ELSE ProcessPinFileUpdate(pin_file,
                            UpdateClosure(all_repos, dirstate, heads, tips,
                                          repo, require_upstream))

\* read_existing_pins(repo_top): results.update(pinned_versions).
ReadExistingPins(pin_file) ==
  DictUpdate(<<>>, ProcessPinFile(pin_file, ReadPinsClosure).dicts.pinned_versions)

(***************************************************************************)
(* The registry (types.ALL_REPOS) and the registries the model is run on.  *)
(***************************************************************************)
A == <<"a">>
B == <<"b">>
C == <<"c">>
D == <<"d">>
\* A name no registry holds.
Unknown == <<"u">>
Names == {A, B, C, D}

RoUrl(name) == <<"h", ":">> \o name
RwUrl(name) == <<"g", ":">> \o name

\* The RepoInfo dataclass with its defaults.
RepoInfo(name, deps, submodules) ==
  [name |-> name, ro_url |-> RoUrl(name), rw_url |-> RwUrl(name),
   deps |-> deps, submodules |-> submodules, tracking_branch |-> "main"]

\* A variant in which a later descriptor takes the place of an earlier one.
RegisterOverwriting(all_repos, info) ==
  [raised |-> "none", all_repos |-> DictSet(all_repos, info.name, info)]

\* RepoInfo.__post_init__ registering a descriptor.
Register(all_repos, info) ==
  IF DictHas(all_repos, info.name)
  THEN [raised |-> "ValueError", all_repos |-> all_repos]
  ELSE [raised |-> "none", all_repos |-> DictSet(all_repos, info.name, info)]

RECURSIVE RegisterAll(_)
RegisterAll(infos) ==
  IF infos = <<>> THEN <<>>
  ELSE Register(RegisterAll(SubSeq(infos, 1, Len(infos) - 1)),
                infos[Len(infos)]).all_repos

\* The shape of the registry of repos.py: one repository with three leaf
\* dependencies, the first of them with submodules.
RegistryStar ==
  RegisterAll(<< RepoInfo(B, <<>>, TRUE), RepoInfo(C, <<>>, FALSE),
                 RepoInfo(A, <<B, C, D>>, FALSE), RepoInfo(D, <<>>, FALSE) >>)

RegistryDiamond ==
  RegisterAll(<< RepoInfo(A, <<B, C>>, FALSE), RepoInfo(B, <<D>>, TRUE),
                 RepoInfo(C, <<D>>, FALSE), RepoInfo(D, <<>>, TRUE) >>)

\* D is a direct dependency of A and a dependency of B, listed before it.
RegistryShadow ==
  RegisterAll(<< RepoInfo(A, <<B, D>>, FALSE), RepoInfo(B, <<D>>, FALSE),
                 RepoInfo(D, <<>>, TRUE) >>)

RegistryCycle ==
  RegisterAll(<< RepoInfo(A, <<B>>, FALSE), RepoInfo(B, <<A>>, TRUE) >>)

RegistrySelf ==
  RegisterAll(<< RepoInfo(A, <<A>>, FALSE) >>)

Registries ==
  {RegistryStar, RegistryDiamond, RegistryShadow, RegistryCycle, RegistrySelf}

\* repos.find: the descriptor, or None.
Find(all_repos, name_query) ==
  IF DictHas(all_repos, name_query)
  THEN [found |-> TRUE, repo |-> DictGet(all_repos, name_query)]
  ELSE [found |-> FALSE, repo |-> RepoInfo(name_query, <<>>, FALSE)]

\* sep.join(strs).
RECURSIVE Join(_, _)
Join(sep, strs) ==
  IF strs = <<>> THEN <<>>
  ELSE IF Len(strs) = 1 THEN strs[1]
  ELSE Join(sep, SubSeq(strs, 1, Len(strs) - 1)) \o sep \o strs[Len(strs)]

\* A variant that offers no names.
NoOptions(all_repos) == <<>>

\* ', '.join([v.name for v in types.ALL_REPOS.values()])
Options(all_repos) ==
  Join(<<", ">>, [i \in 1..Len(all_repos) |-> all_repos[i][2].name])

\* repos.find_required: the descriptor, or a CLIError with its message.
FindRequired(all_repos, name_query) ==
  LET r == Find(all_repos, name_query)
  IN IF ~r.found
     THEN [raised |-> "CLIError", repo |-> r.repo,
           message |-> <<"No repository matching", " '">> \o name_query
                       \o <<"' found (", "did you mean one of: ">>
                       \o Options(all_repos) \o <<")">>]
     ELSE [raised |-> "none", repo |-> r.repo, message |-> <<>>]

(***************************************************************************)
(* State.                                                                  *)
(***************************************************************************)
VARIABLES
  ALL_REPOS,        \* the registry
  dirs,             \* per name: "absent", "repo" (a git working tree) or
                    \* "plain" (a directory that is no working tree)
  head,             \* per working tree: the revision HEAD is at
  wt,               \* per working tree: its sync_deps.py
  commits,          \* per repository and revision: sync_deps.py as committed
  remoteTip,        \* per repository: the head of the remote tracking branch
  subInit,          \* per working tree: the submodule paths initialized
  pc,               \* "idle", "running", "done", "error" (CLIError, exit 1)
                    \* or "crash" (any other exception)
  stack,            \* the call stack of the running command, top last
  skip_repo_names,  \* the set shared by one checkout call tree
  updated_heads,    \* the dict shared by the sync calls of one command
  log,              \* the git commands issued by the running command
  ncalls,           \* recursive calls made by the running top-level call
  cmd,              \* the command line: the command and its arguments
  runNo,            \* times the command was started so far
  start,            \* head and dirs as they were when the running command
                    \* started
  prevRun,          \* how the run before the current one ended, and its log
  lastCall,         \* the last pin store or roll operation and its outcome
  requirements,     \* per requirements file of the repository a roll runs
                    \* in: its lines, or that it does not exist
  markers           \* the directories that hold a workspace marker file

vars ==
  <<ALL_REPOS, dirs, head, wt, commits, remoteTip, subInit, pc, stack,
    skip_repo_names, updated_heads, log, ncalls, cmd, runNo, start, prevRun,
    lastCall, requirements, markers>>

worldVars == <<dirs, head, wt, commits, remoteTip, subInit>>
fileVars == <<requirements, markers>>

\* No requirements file is looked at.
NoRequirements == <<>>

\* What a command finds when it starts: the revisions and the directories,
\* for a sync the manifests it may read and for a roll the files it may
\* rewrite.
Snapshot ==
  CASE cmd.name = "do_roll" ->
         [head |-> head, dirs |-> dirs, wt |-> wt,
          requirements |-> requirements]
    [] cmd.name \in {"sync", "do_sync"} ->
         [head |-> head, dirs |-> dirs, wt |-> wt]
    [] OTHER -> [head |-> head, dirs |-> dirs]
runVars == <<pc, stack, skip_repo_names, updated_heads, log, ncalls, cmd,
             runNo, start, prevRun>>

NoCall ==
  [op |-> "none", dep |-> <<>>, revision |-> <<>>, via |-> <<>>,
   raised |-> "none", ret |-> FALSE, wrote |-> FALSE, before |-> NoFile,
   dicts |-> [pinned_versions |-> <<>>, origins |-> <<>>,
              submodules |-> <<>>],
   prevSame |-> FALSE, prevRaised |-> "none", prevWrote |-> FALSE]

NoRun == [pc |-> "idle", log |-> <<>>]

\* The command line of the pin store runs: none.
NoCmd == [name |-> "none"]

(***************************************************************************)
(* Manifests as the pin command leaves them, used as the committed history *)
(* of the repositories and as the files found in the working trees.        *)
(***************************************************************************)
Schemes == {"same", "flip", "first", "nofile"}

\* The revision a manifest committed at revision v pins its k-th dependency
\* to: the same revision, or the next one.
SchemeRev(scheme, v) == IF scheme = "flip" THEN NextRev(v) ELSE v

\* The dependencies a manifest of that scheme has entries for.
SchemeDeps(scheme, deps) ==
  CASE scheme = "nofile" -> <<>>
    [] scheme = "first" -> IF deps = <<>> THEN <<>> ELSE <<deps[1]>>
    [] OTHER -> deps

RECURSIVE ManifestDicts(_, _, _)
ManifestDicts(all_repos, deps, rev) ==
  IF deps = <<>>
  THEN [pinned_versions |-> <<>>, origins |-> <<>>, submodules |-> <<>>]
  ELSE LET n == Len(deps)
           dep == deps[n]
           m == ManifestDicts(all_repos, SubSeq(deps, 1, n - 1), rev)
       IN [pinned_versions |-> DictSet(m.pinned_versions, dep, rev),
           origins |-> DictSet(m.origins, dep, RoUrl(dep)),
           submodules |-> IF Find(all_repos, dep).repo.submodules
                          THEN DictSet(m.submodules, dep, 1)
                          ELSE m.submodules]

SchemeFile(all_repos, name, scheme, v) ==
  LET deps == SchemeDeps(scheme, Find(all_repos, name).repo.deps)
      m == ManifestDicts(all_repos, deps, SchemeRev(scheme, v))
  IN IF deps = <<>> THEN NoFile
     ELSE WritePinFile(m.pinned_versions, m.origins, m.submodules)

(***************************************************************************)
(* git, as far as the tool uses it.                                        *)
(***************************************************************************)
\* A repository directory as git sees it: the working-tree copy of
\* sync_deps.py and the file as committed at each revision.
GitDir(tree, history) == [tree |-> tree, history |-> history]

\* Whether subprocess.run can hand the string to a process: a lone
\* surrogate has no UTF-8 encoding.
Encodable(str) ==
  \A i \in 1..Len(str) : str[i] \notin {HiSurrogate, LoSurrogate}

\* git.show_file(d, ref=revision, path="sync_deps.py"): the command line
\* must be encodable, and `git show` fails for an unknown revision and for
\* a revision without the file.
GitShowFile(d, revision) ==
  IF ~Encodable(revision)
  THEN [raised |-> "UnicodeEncodeError", contents |-> NoFile]
  ELSE IF revision \in DOMAIN d.history /\ d.history[revision].exists
  THEN [raised |-> "none", contents |-> d.history[revision]]
  ELSE [raised |-> "GitError", contents |-> NoFile]

\* A variant that reads the manifest of the working tree instead.
ReadRevisionPinsFromTree(repo_top, revision) ==
  [raised |-> "none", pins |-> ReadExistingPins(repo_top.tree)]

\* read_revision_pins(repo_top, revision): the file at that revision, written
\* to a directory of its own and read as any manifest.
ReadRevisionPins(repo_top, revision) ==
  LET shown == GitShowFile(repo_top, revision)
  IN [raised |-> shown.raised,
      pins |-> IF shown.raised = "none"
               THEN ReadExistingPins(shown.contents) ELSE <<>>]

(***************************************************************************)
(* The roll actions of roller.py that patch one pin.                       *)
(***************************************************************************)
Failed(kind, pin_file) ==
  [raised |-> kind, ret |-> FALSE, wrote |-> FALSE, file |-> pin_file,
   dicts |-> [pinned_versions |-> <<>>, origins |-> <<>>,
              submodules |-> <<>>]]

\* GitRepoHead.update: the pin becomes the remote head of the tracking branch.
GitRepoHeadUpdate(all_repos, tips, pin_file, dep_repo_name) ==
  IF ~DictHas(all_repos, dep_repo_name) THEN Failed("KeyError", pin_file)
  ELSE SetPinRevision(pin_file, dep_repo_name, tips[dep_repo_name])

\* A variant that, when the current manifest has no pin for via, goes by the
\* manifest in via's working tree.
ViaDepResolveLenient(all_repos, dirstate, via_repo_dir, pin_file, dep_repo_name, via) ==
  IF ~DictHas(all_repos, via)
  THEN [raised |-> "KeyError", revision |-> <<>>]
  ELSE IF RepoDir(dirstate[via]) # "none"
  THEN [raised |-> RepoDir(dirstate[via]), revision |-> <<>>]
  ELSE LET our_pins == ReadExistingPins(pin_file)
           via_pins == IF DictHas(our_pins, via)
                       THEN ReadRevisionPins(via_repo_dir,
                                             DictGet(our_pins, via))
                       ELSE [raised |-> "none",
                             pins |-> ReadExistingPins(via_repo_dir.tree)]
       IN IF via_pins.raised # "none"
          THEN [raised |-> via_pins.raised, revision |-> <<>>]
          ELSE IF ~DictHas(via_pins.pins, dep_repo_name)
          THEN [raised |-> "CLIError", revision |-> <<>>]
          ELSE [raised |-> "none",
                revision |-> DictGet(via_pins.pins, dep_repo_name)]

\* The revision GitRepoViaDep.update resolves: the pin of dep_repo_name in
\* via's manifest at the revision the current manifest pins via at.
ViaDepResolve(all_repos, dirstate, via_repo_dir, pin_file, dep_repo_name, via) ==
  IF ~DictHas(all_repos, via)
  THEN [raised |-> "KeyError", revision |-> <<>>]
  ELSE IF RepoDir(dirstate[via]) # "none"
  THEN [raised |-> RepoDir(dirstate[via]), revision |-> <<>>]
  ELSE LET our_pins == ReadExistingPins(pin_file)
       IN IF ~DictHas(our_pins, via)
          THEN [raised |-> "CLIError", revision |-> <<>>]
          ELSE LET via_repo_revision == DictGet(our_pins, via)
                   via_pins == ReadRevisionPins(via_repo_dir, via_repo_revision)
               IN IF via_pins.raised # "none"
                  THEN [raised |-> via_pins.raised, revision |-> <<>>]
                  ELSE IF ~DictHas(via_pins.pins, dep_repo_name)
                  THEN [raised |-> "CLIError", revision |-> <<>>]
                  ELSE [raised |-> "none",
                        revision |-> DictGet(via_pins.pins, dep_repo_name)]

\* GitRepoViaDep.update.
GitRepoViaDepUpdate(all_repos, dirstate, via_repo_dir, pin_file, dep_repo_name, via) ==
  LET got == ViaDepResolve(all_repos, dirstate, via_repo_dir, pin_file,
                           dep_repo_name, via)
  IN IF got.raised # "none" THEN Failed(got.raised, pin_file)
     ELSE SetPinRevision(pin_file, dep_repo_name, got.revision)

(***************************************************************************)
(* The pin store and the roll actions, run in the working tree of A.       *)
(***************************************************************************)
AllPresent == [n \in Names |-> "repo"]
NothingInitialized == [n \in Names |-> {}]

InitPins ==
  /\ ALL_REPOS = RegistryShadow
  /\ dirs = AllPresent
  /\ \E hb \in Revs : head = [n \in Names |-> IF n = B THEN hb ELSE <<"1">>]
  /\ \E sb \in Schemes :
       commits = [n \in Names |-> [v \in Revs |->
                    SchemeFile(ALL_REPOS, n, IF n = B THEN sb ELSE "same", v)]]
  /\ \E sa \in Schemes, dirty \in BOOLEAN :
       wt = [n \in Names |->
               CASE n = A -> SchemeFile(ALL_REPOS, A, sa, head[A])
                 [] n = B /\ dirty -> commits[B][NextRev(head[B])]
                 [] OTHER -> commits[n][head[n]]]
  /\ remoteTip = [n \in Names |-> NextRev(head[n])]
  /\ subInit = NothingInitialized
  /\ pc = "idle"
  /\ stack = <<>>
  /\ skip_repo_names = {}
  /\ updated_heads = <<>>
  /\ log = <<>>
  /\ ncalls = 0
  /\ cmd = NoCmd
  /\ runNo = 0
  /\ requirements = NoRequirements
  /\ markers = {}
  /\ start = Snapshot
  /\ prevRun = NoRun
  /\ lastCall = NoCall

\* One operation on A's manifest took place, with outcome res.
PinStoreStep(op, dep, revision, via, res) ==
  /\ wt' = [wt EXCEPT ![A] = res.file]
  /\ lastCall' =
       [op |-> op, dep |-> dep, revision |-> revision, via |-> via,
        raised |-> res.raised, ret |-> res.ret, wrote |-> res.wrote,
        before |-> wt[A],
        dicts |-> [pinned_versions |-> res.dicts.pinned_versions,
                   origins |-> res.dicts.origins,
                   submodules |-> res.dicts.submodules],
        prevSame |-> /\ lastCall.op = op
                     /\ lastCall.dep = dep
                     /\ lastCall.revision = revision
                     /\ lastCall.via = via,
        prevRaised |-> lastCall.raised, prevWrote |-> lastCall.wrote]
  /\ UNCHANGED <<ALL_REPOS, dirs, head, commits, remoteTip, subInit>>
  /\ UNCHANGED fileVars
  /\ UNCHANGED runVars

\* The revisions a caller may hand to set_pin_revision.
PinInputs == Revs \cup OddStrings

CallSetPinRevision ==
  \E dep \in {B, C, D}, revision \in PinInputs :
    PinStoreStep("set_pin_revision", dep, revision, <<>>,
                 SetPinRevision(wt[A], dep, revision))

\* The manifests a writing callback may leave behind.
WriteInputs ==
  { ManifestDicts(ALL_REPOS, deps, rev) :
      deps \in {<<>>, <<D>>, <<B, D>>}, rev \in PinInputs }

\* process_pin_file with a callback that fills in the three dicts and asks
\* for the file to be written.
CallWritePins ==
  \E m \in WriteInputs :
    PinStoreStep("write", <<>>, <<>>, <<>>,
                 ProcessPinFile(wt[A], FillClosure(m)))

CallReadPins ==
  PinStoreStep("read", <<>>, <<>>, <<>>,
               ProcessPinFile(wt[A], ReadPinsClosure))

RollRepoHead ==
  \E dep \in {B, C, D} :
    PinStoreStep("GitRepoHead", dep, <<>>, <<>>,
                 GitRepoHeadUpdate(ALL_REPOS, remoteTip, wt[A], dep))

RollViaDep ==
  \E dep \in {C, D}, via \in {B, C} :
    PinStoreStep("GitRepoViaDep", dep, <<>>, via,
                 GitRepoViaDepUpdate(ALL_REPOS, dirs,
                                     GitDir(wt[via], commits[via]), wt[A],
                                     dep, via))

NextPins ==
  \/ CallSetPinRevision
  \/ CallWritePins
  \/ CallReadPins
  \/ RollRepoHead
  \/ RollViaDep

SpecPins == InitPins /\ [][NextPins]_vars

(***************************************************************************)
(* Properties of the pin store and of the roll actions.                    *)
(***************************************************************************)
PinsBefore == ReadExistingPins(lastCall.before)
PinsNow == ReadExistingPins(wt[A])

\* C5: set_pin_revision called a second time in a row with the same
\* dependency name and revision, after a first call that succeeded, returns
\* false, writes nothing and leaves the file as it was.
C5_SetPinIdempotent ==
  ( /\ lastCall.op = "set_pin_revision"
    /\ lastCall.prevSame
    /\ lastCall.prevRaised = "none" )
  => /\ lastCall.raised = "none"
     /\ lastCall.ret = FALSE
     /\ ~lastCall.wrote
     /\ wt[A] = lastCall.before

\* C6: set_pin_revision on a name the manifest does not pin (or without any
\* manifest file) fails with a CLIError and writes nothing, and neither it
\* nor a roll action adds a key to the pinned revisions.
C6_UnknownPinNeverAdded ==
  /\ ( /\ lastCall.op = "set_pin_revision"
       /\ ~DictHas(PinsBefore, lastCall.dep) )
     => /\ lastCall.raised = "CLIError"
        /\ ~lastCall.wrote
        /\ wt[A] = lastCall.before
  /\ lastCall.op \in {"set_pin_revision", "GitRepoHead", "GitRepoViaDep"}
     => DictKeys(PinsNow) \subseteq DictKeys(PinsBefore)

\* C6 witness: set_pin_revision was called where no manifest file exists.
C6_Witness ==
  /\ lastCall.op = "set_pin_revision"
  /\ ~lastCall.before.exists
  /\ lastCall.raised = "CLIError"
  /\ ~wt[A].exists

\* C7: after process_pin_file has written the three dicts, loading the file
\* gives three dicts equal to the ones written.
C7_PinRoundTrip ==
  lastCall.op = "write"
  => LET m == LoadPinFile(wt[A])
     IN /\ DictEq(m.pinned_versions, lastCall.dicts.pinned_versions)
        /\ DictEq(m.origins, lastCall.dicts.origins)
        /\ DictEq(m.submodules, lastCall.dicts.submodules)

\* The case of C10: A's manifest pinned via at a revision R whose committed
\* manifest of via pins dep.
ViaCase ==
  /\ lastCall.op = "GitRepoViaDep"
  /\ dirs[lastCall.via] = "repo"
  /\ DictHas(PinsBefore, lastCall.via)
  /\ DictGet(PinsBefore, lastCall.via) \in Revs
  /\ LET R == DictGet(PinsBefore, lastCall.via)
     IN /\ commits[lastCall.via][R].exists
        /\ DictHas(ReadExistingPins(commits[lastCall.via][R]), lastCall.dep)

ViaX ==
  DictGet(ReadExistingPins(
            commits[lastCall.via][DictGet(PinsBefore, lastCall.via)]),
          lastCall.dep)

\* C10 as stated: in that case the action sets dep's pin in A's manifest to
\* the revision X that via's manifest at R pins dep to.
C10_InheritViaRepoAlways ==
  ViaCase
  => /\ lastCall.raised = "none"
     /\ DictHas(PinsNow, lastCall.dep)
     /\ DictGet(PinsNow, lastCall.dep) = ViaX

\* C10, amended: in that case, and when A's manifest already has a pin for
\* dep, the action sets that pin to X, whatever via's working tree holds;
\* when A's manifest has no pin for dep the action fails and changes nothing.
C10_InheritViaRepo ==
  ViaCase
  => IF DictHas(PinsBefore, lastCall.dep)
     THEN /\ lastCall.raised = "none"
          /\ DictHas(PinsNow, lastCall.dep)
          /\ DictGet(PinsNow, lastCall.dep) = ViaX
     ELSE /\ lastCall.raised = "CLIError"
          /\ wt[A] = lastCall.before

\* C10 witness: the pin was changed to X while via's working tree was at
\* another revision than R, with a manifest pinning dep to something else.
C10_Witness ==
  /\ ViaCase
  /\ DictHas(PinsBefore, lastCall.dep)
  /\ lastCall.wrote
  /\ DictGet(PinsNow, lastCall.dep) = ViaX
  /\ head[lastCall.via] # DictGet(PinsBefore, lastCall.via)
  /\ DictHas(ReadExistingPins(wt[lastCall.via]), lastCall.dep)
  /\ DictGet(ReadExistingPins(wt[lastCall.via]), lastCall.dep) # ViaX

\* GitRepoViaDep.update was run with a registered via whose directory is a
\* working tree.
ViaRan ==
  /\ lastCall.op = "GitRepoViaDep"
  /\ DictHas(ALL_REPOS, lastCall.via)
  /\ dirs[lastCall.via] = "repo"

\* A's manifest had no pin for via.
ViaNotPinned == ViaRan /\ ~DictHas(PinsBefore, lastCall.via)

\* A's manifest pinned via at a revision whose committed manifest of via
\* has no pin for dep.
TransitivePinMissing ==
  /\ ViaRan
  /\ DictHas(PinsBefore, lastCall.via)
  /\ DictGet(PinsBefore, lastCall.via) \in Revs
  /\ LET R == DictGet(PinsBefore, lastCall.via)
     IN /\ commits[lastCall.via][R].exists
        /\ ~DictHas(ReadExistingPins(commits[lastCall.via][R]), lastCall.dep)

\* A roll action leaves every working tree but A's manifest as it is.
RollKeepsTrees ==
  lastCall'.op \in {"GitRepoViaDep", "GitRepoHead"} =>
    /\ head' = head
    /\ dirs' = dirs
    /\ \A n \in Names \ {A} : wt'[n] = wt[n]

\* C26: GitRepoViaDep fails with a CLIError when the manifest of the
\* repository it runs in has no pin for via, and when via's manifest at the
\* revision via is pinned at has no pin for dep; either way the manifest of
\* the repository it runs in is left as it was, and the action never moves
\* the revision via's working tree is at.
C26_ViaDepFailures ==
  /\ []((ViaNotPinned \/ TransitivePinMissing) =>
         /\ lastCall.raised = "CLIError"
         /\ ~lastCall.wrote
         /\ wt[A] = lastCall.before)
  /\ [][RollKeepsTrees]_vars

\* The action failed for a dep that via's manifest at its pinned revision
\* does not pin, while the manifest in via's working tree, at another
\* revision, is another one; and A's manifest, which pins via, is as before.
C26_Witness ==
  /\ TransitivePinMissing
  /\ lastCall.raised = "CLIError"
  /\ wt[A] = lastCall.before
  /\ wt[A].exists
  /\ head[lastCall.via] = start.head[lastCall.via]
  /\ DictHas(ReadExistingPins(
               commits[lastCall.via][DictGet(PinsBefore, lastCall.via)]), D)

(***************************************************************************)
(* The call stack of a running command.                                    *)
(***************************************************************************)
\* A Python value that is a bool or a list (the submodules argument of
\* checkout is rebound to a list inside the function).
PyBool(b) == [isList |-> FALSE, b |-> b, l |-> <<>>]
PyList(l) == [isList |-> TRUE, b |-> FALSE, l |-> l]
Truthy(x) == IF x.isList THEN Len(x.l) > 0 ELSE x.b

\* One activation of do_checkout, do_sync, checkout or sync: the repository
\* it runs on, the index i of the next element of the list it loops over,
\* and its arguments and locals.
Frame(fn, repo, phase, pins, submodules, exclude_submodules, exclude_deps) ==
  [fn |-> fn, repo |-> repo, i |-> 1, phase |-> phase, pins |-> pins,
   submodules |-> submodules, exclude_submodules |-> exclude_submodules,
   exclude_deps |-> exclude_deps]

Top == stack[Len(stack)]
ReplaceTop(f) == SubSeq(stack, 1, Len(stack) - 1) \o <<f>>
NextIteration == ReplaceTop([Top EXCEPT !.i = @ + 1])

\* One line of the output or one git command: what, on which repository,
\* with which argument.
Event(op, repo, arg) == [op |-> op, repo |-> repo, arg |-> arg]

\* An exception leaves the command: main() turns a CLIError into exit code
\* 1, anything else ends the process with a traceback.
Raise(kind) ==
  /\ pc' = IF kind = "CLIError" THEN "error" ELSE "crash"
  /\ stack' = <<>>

(***************************************************************************)
(* Exclusion filters and submodules.                                       *)
(***************************************************************************)
\* The exclude_dep loop of checkout and sync.
ExcludeDep(exclude_deps, dep_name) ==
  \E k \in 1..Len(exclude_deps) : Search(exclude_deps[k], dep_name)

\* filter_submodule(s), negated: some pattern matches "name:path".
ExcludeSubmodule(exclude_submodules, name, s) ==
  \E k \in 1..Len(exclude_submodules) :
    Search(exclude_submodules[k], name \o <<":">> \o s)

\* git.list_submodules(path): the paths `git submodule status` prints.
ListSubmodules(repo) ==
  IF repo.submodules THEN << <<"x">>, <<"y">> >> ELSE <<>>

\* [s for s in git.list_submodules(path) if filter_submodule(s)]
FilteredSubmodules(exclude_submodules, repo) ==
  LET keep(s) == ~ExcludeSubmodule(exclude_submodules, repo.name, s)
  IN SelectSeq(ListSubmodules(repo), keep)

\* git.update_submodules(d, submodules): `git submodule update --init --`
\* followed by the paths; without any path git takes every submodule.
UpdateSubmodules(initialized, repo, submodules) ==
  initialized \cup
    (IF submodules = <<>>
     THEN { ListSubmodules(repo)[k] : k \in 1..Len(ListSubmodules(repo)) }
     ELSE { submodules[k] : k \in 1..Len(submodules) })

(***************************************************************************)
(* checkout (repos.py).                                                    *)
(***************************************************************************)
\* A path.exists() that never sees the directory.
PathNeverExists(state) == FALSE

\* path.exists()
PathExists(state) == state # "absent"

\* A skip set that is never consulted.
NeverVisited(skip, dep_name) == FALSE

\* A skip set that holds every name.
AlwaysVisited(skip, dep_name) == TRUE

\* `dep_name in skip_repo_names` at the head of the dependency loop.
AlreadyVisited(skip, dep_name) == dep_name \in skip

\* A variant that takes every directory it finds for a working tree.
CheckoutCloneTrusting(repo, rw, submodules, exclude_submodules, skip, state) ==
  LET url == IF rw THEN repo.rw_url ELSE repo.ro_url
      wanted == FilteredSubmodules(exclude_submodules, repo)
      quiet == [raised |-> "none", cloned |-> FALSE, exists |-> FALSE,
                url |-> url, inits |-> FALSE, wanted |-> <<>>,
                submodules |-> submodules]
  IN IF repo.name \in skip THEN quiet
     ELSE IF PathExists(state) THEN [quiet EXCEPT !.exists = TRUE]
     ELSE IF Truthy(submodules) /\ repo.submodules
     THEN [quiet EXCEPT !.cloned = TRUE, !.inits = TRUE, !.wanted = wanted,
                        !.submodules = PyList(wanted)]
     ELSE [quiet EXCEPT !.cloned = TRUE]

\* The first half of checkout, up to skip_repo_names.add: whether it raises,
\* whether it clones and from where, and the submodules it initializes.
CheckoutClone(repo, rw, submodules, exclude_submodules, skip, state) ==
  LET url == IF rw THEN repo.rw_url ELSE repo.ro_url
      wanted == FilteredSubmodules(exclude_submodules, repo)
      quiet == [raised |-> "none", cloned |-> FALSE, exists |-> FALSE,
                url |-> url, inits |-> FALSE, wanted |-> <<>>,
                submodules |-> submodules]
  IN IF repo.name \in skip THEN quiet
     ELSE IF PathExists(state)
     THEN IF state = "repo" THEN [quiet EXCEPT !.exists = TRUE]
          ELSE [quiet EXCEPT !.raised = "CLIError"]
     ELSE IF Truthy(submodules) /\ repo.submodules
     THEN [quiet EXCEPT !.cloned = TRUE, !.inits = TRUE, !.wanted = wanted,
                        !.submodules = PyList(wanted)]
     ELSE [quiet EXCEPT !.cloned = TRUE]

\* checkout, from its first line to the head of its dependency loop.
CheckoutBody ==
  /\ pc = "running"
  /\ stack # <<>>
  /\ Top.fn = "checkout"
  /\ Top.phase = "body"
  /\ LET f == Top
         repo == DictGet(ALL_REPOS, f.repo)
         skip == skip_repo_names
         c == CheckoutClone(repo, ~cmd.ro, f.submodules,
                            f.exclude_submodules, skip, dirs[f.repo])
         tip == remoteTip[f.repo]
     IN IF c.raised # "none"
        THEN /\ Raise(c.raised)
             /\ UNCHANGED <<dirs, head, wt, subInit, skip_repo_names, log>>
        ELSE /\ dirs' = IF c.cloned THEN [dirs EXCEPT ![f.repo] = "repo"]
                        ELSE dirs
             /\ head' = IF c.cloned THEN [head EXCEPT ![f.repo] = tip]
                        ELSE head
             /\ wt' = IF c.cloned
                      THEN [wt EXCEPT ![f.repo] = commits[f.repo][tip]]
                      ELSE wt
             /\ subInit' = IF c.inits
                           THEN [subInit EXCEPT ![f.repo] =
                                   UpdateSubmodules({}, repo, c.wanted)]
                           ELSE IF c.cloned
                           THEN [subInit EXCEPT ![f.repo] = {}]
                           ELSE subInit
             /\ log' = log
                  \o (IF c.exists
                      THEN <<Event("exists", f.repo, <<>>)>> ELSE <<>>)
                  \o (IF c.cloned
                      THEN <<Event("clone", f.repo, c.url)>> ELSE <<>>)
                  \o (IF c.inits
                      THEN <<Event("update_submodules", f.repo, c.wanted)>>
                      ELSE <<>>)
             /\ skip_repo_names' = skip \cup {f.repo}
             /\ stack' = ReplaceTop([f EXCEPT !.phase = "deps",
                                              !.submodules = c.submodules])
             /\ pc' = pc
  /\ UNCHANGED <<ALL_REPOS, commits, remoteTip, updated_heads, ncalls, cmd,
                 runNo, start, prevRun, lastCall>>
  /\ UNCHANGED fileVars

\* One iteration of the dependency loop of checkout.
CheckoutDep ==
  /\ pc = "running"
  /\ stack # <<>>
  /\ Top.fn = "checkout"
  /\ Top.phase = "deps"
  /\ ~cmd.no_deps
  /\ Top.i <= Len(DictGet(ALL_REPOS, Top.repo).deps)
  /\ LET f == Top
         dep_name == DictGet(ALL_REPOS, f.repo).deps[f.i]
     IN IF AlreadyVisited(skip_repo_names, dep_name)
        THEN /\ stack' = NextIteration
             /\ UNCHANGED <<pc, log, ncalls>>
        ELSE IF ExcludeDep(f.exclude_deps, dep_name)
        THEN /\ stack' = NextIteration
             /\ log' = Append(log, Event("exclude_dep", dep_name, <<>>))
             /\ UNCHANGED <<pc, ncalls>>
        ELSE IF ~DictHas(ALL_REPOS, dep_name)
        THEN /\ Raise("KeyError")
             /\ UNCHANGED <<log, ncalls>>
        ELSE /\ Len(stack) < MaxDepth
             /\ stack' = Append(NextIteration,
                                Frame("checkout", dep_name, "body", <<>>,
                                      f.submodules, f.exclude_submodules,
                                      f.exclude_deps))
             /\ ncalls' = ncalls + 1
             /\ UNCHANGED <<pc, log>>
  /\ UNCHANGED <<ALL_REPOS, dirs, head, wt, commits, remoteTip, subInit,
                 skip_repo_names, updated_heads, cmd, runNo, start, prevRun,
                 lastCall>>
  /\ UNCHANGED fileVars

(***************************************************************************)
(* sync (pins.py of devtools, and its predecessor in dev_tools).           *)
(***************************************************************************)
\* The activations of the two versions of sync.
NewSync == "sync"
OldSync == "dev_tools.sync"

\* An updated_heads that is never consulted.
SyncNeverDuplicate(updated, dep_name) == FALSE

\* `dep_name in updated_heads`
SyncIsDuplicate(updated, dep_name) == DictHas(updated, dep_name)

\* A sync that fetches and checks out whatever HEAD is at.
SyncAlwaysChecksOut(current_revision, dep_revision) == TRUE

\* `current_revision == dep_revision`, negated: the else branch is taken.
SyncNeedsCheckout(current_revision, dep_revision) ==
  current_revision # dep_revision

\* The head of the loop body of sync: which of its branches a dependency
\* takes.
SyncVerdict(exclude_deps, updated, pins, dep_name) ==
  IF ExcludeDep(exclude_deps, dep_name) THEN "exclude_dep"
  ELSE IF SyncIsDuplicate(updated, dep_name) THEN "duplicate"
  ELSE IF ~DictHas(pins, dep_name) THEN "no_pin"
  ELSE "syncing"

\* A variant in which a dependency without a pin ends the sync.
NoPinIsError(verdict) == IF verdict = "no_pin" THEN "CLIError" ELSE "none"

\* The three branches that skip a dependency print a line and `continue`.
SkipRaises(verdict) == "none"

\* What sync does to the submodules of a dependency it processes: whether
\* it runs `git submodule update --init`, and on which paths (none: all).
SyncSubmodules(fn, dep_repo, exclude_submodules, moved) ==
  LET wanted == FilteredSubmodules(exclude_submodules, dep_repo)
  IN IF fn = OldSync
     THEN [inits |-> moved /\ dep_repo.submodules, paths |-> <<>>]
     ELSE [inits |-> dep_repo.submodules /\ wanted # <<>>, paths |-> wanted]

\* A recursive call that is handed the manifest the dependency had in its
\* working tree before it was brought to its pin.
SyncRecursionStale(fn, dep_name, tree) ==
  Frame(fn, dep_name, "deps", ReadExistingPins(wt[dep_name]), PyBool(TRUE),
        <<>>, <<>>)

\* The activation of the recursive call at the end of the loop body: only
\* updated_heads is handed down, every other argument takes its default.
SyncRecursion(fn, dep_name, tree) ==
  Frame(fn, dep_name, "deps", ReadExistingPins(tree), PyBool(TRUE), <<>>,
        <<>>)

\* One iteration of the loop of sync over repo.deps.
SyncLoop(fn) ==
  /\ pc = "running"
  /\ stack # <<>>
  /\ Top.fn = fn
  /\ Top.i <= Len(DictGet(ALL_REPOS, Top.repo).deps)
  /\ LET f == Top
         dep_name == DictGet(ALL_REPOS, f.repo).deps[f.i]
         verdict == SyncVerdict(f.exclude_deps, updated_heads, f.pins,
                                dep_name)
         dep_revision == DictGet(f.pins, dep_name)
         dep_repo == DictGet(ALL_REPOS, dep_name)
         raised == IF ~DictHas(ALL_REPOS, dep_name) THEN "KeyError"
                   ELSE RepoDir(dirs[dep_name])
         current_revision == head[dep_name]
         moved == SyncNeedsCheckout(current_revision, dep_revision)
         tree == IF moved THEN commits[dep_name][dep_revision]
                 ELSE wt[dep_name]
         sub == SyncSubmodules(fn, dep_repo, f.exclude_submodules, moved)
     IN IF verdict # "syncing"
        THEN /\ IF SkipRaises(verdict) # "none"
                THEN Raise(SkipRaises(verdict))
                ELSE stack' = NextIteration /\ pc' = pc
             /\ log' = Append(log, Event(verdict, dep_name, <<>>))
             /\ UNCHANGED <<updated_heads, head, wt, subInit, ncalls>>
        ELSE IF raised # "none"
        THEN /\ Raise(raised)
             /\ updated_heads' = DictSet(updated_heads, dep_name,
                                         dep_revision)
             /\ log' = Append(log, Event("syncing", dep_name, dep_revision))
             /\ UNCHANGED <<head, wt, subInit, ncalls>>
        ELSE /\ Len(stack) < MaxDepth
             /\ updated_heads' = DictSet(updated_heads, dep_name,
                                         dep_revision)
             /\ head' = IF moved THEN [head EXCEPT ![dep_name] = dep_revision]
                        ELSE head
             /\ wt' = [wt EXCEPT ![dep_name] = tree]
             /\ subInit' = IF sub.inits
                           THEN [subInit EXCEPT ![dep_name] =
                                   UpdateSubmodules(@, dep_repo, sub.paths)]
                           ELSE subInit
             /\ log' = log
                  \o << Event("syncing", dep_name, dep_revision),
                        Event("revparse", dep_name, current_revision) >>
                  \o (IF moved
                      THEN << Event("fetch", dep_name, <<>>),
                              Event("checkout", dep_name, dep_revision) >>
                      ELSE << Event("already", dep_name, <<>>) >>)
                  \o (IF sub.inits
                      THEN <<Event("update_submodules", dep_name, sub.paths)>>
                      ELSE <<>>)
             /\ stack' = Append(NextIteration,
                                SyncRecursion(fn, dep_name, tree))
             /\ ncalls' = ncalls + 1
             /\ pc' = pc
  /\ UNCHANGED <<ALL_REPOS, dirs, commits, remoteTip, skip_repo_names, cmd,
                 runNo, start, prevRun, lastCall>>
  /\ UNCHANGED fileVars

\* sync of devtools/workspace/pins.py.
SyncDep == SyncLoop(NewSync)

\* sync of dev_tools/workspace/pins.py, the one __main__ imports.
OldSyncDep == SyncLoop(OldSync)

(***************************************************************************)
(* Returning, and the command handlers of __main__.py.                     *)
(***************************************************************************)
\* The loop an activation sits in has run out.
LoopDone(f) ==
  CASE f.fn = "checkout" ->
         /\ f.phase = "deps"
         /\ cmd.no_deps \/ f.i > Len(DictGet(ALL_REPOS, f.repo).deps)
    [] f.fn = "do_checkout" -> f.phase = "checkout" /\ f.i > Len(cmd.names)
    [] f.fn = "do_roll" ->
         f.i > Len(DictGet(DictGet(ALL_REPOS, f.repo).rolling_schedules,
                           cmd.schedule))
    [] OTHER -> f.i > Len(DictGet(ALL_REPOS, f.repo).deps)

\* The innermost activation returns to its caller; the outermost one ends
\* the command.
Return ==
  /\ pc = "running"
  /\ stack # <<>>
  /\ LoopDone(Top)
  /\ stack' = SubSeq(stack, 1, Len(stack) - 1)
  /\ pc' = IF Len(stack) = 1 THEN "done" ELSE pc
  /\ UNCHANGED <<ALL_REPOS, dirs, head, wt, commits, remoteTip, subInit,
                 skip_repo_names, updated_heads, log, ncalls, cmd, runNo,
                 start, prevRun, lastCall>>
  /\ UNCHANGED fileVars

\* do_checkout, one repo_name: find_required and the call of checkout with
\* a skip set of its own.
DoCheckoutFind ==
  /\ pc = "running"
  /\ stack # <<>>
  /\ Top.fn = "do_checkout"
  /\ Top.phase = "checkout"
  /\ Top.i <= Len(cmd.names)
  /\ LET r == FindRequired(ALL_REPOS, cmd.names[Top.i])
     IN IF r.raised # "none"
        THEN /\ Raise(r.raised)
             /\ log' = Append(log, Event("stderr", cmd.names[Top.i],
                                         r.message))
             /\ UNCHANGED <<skip_repo_names, ncalls>>
        ELSE /\ stack' = Append(ReplaceTop([Top EXCEPT !.phase = "sync"]),
                                Frame("checkout", r.repo.name, "body", <<>>,
                                      PyBool(~cmd.no_submodules), <<>>, <<>>))
             /\ skip_repo_names' = {}
             /\ ncalls' = 0
             /\ pc' = pc
             /\ log' = log
  /\ UNCHANGED <<ALL_REPOS, dirs, head, wt, commits, remoteTip, subInit,
                 updated_heads, cmd, runNo, start, prevRun, lastCall>>
  /\ UNCHANGED fileVars

\* do_checkout, after checkout has returned: with --sync the call of
\* pins.sync on the repository, with the updated_heads of the whole command.
DoCheckoutSync ==
  /\ pc = "running"
  /\ stack # <<>>
  /\ Top.fn = "do_checkout"
  /\ Top.phase = "sync"
  /\ LET name == cmd.names[Top.i]
         next == [Top EXCEPT !.phase = "checkout", !.i = @ + 1]
     IN IF ~cmd.sync
        THEN /\ stack' = ReplaceTop(next)
             /\ UNCHANGED <<pc, ncalls>>
        ELSE IF RepoDir(dirs[name]) # "none"
        THEN /\ Raise(RepoDir(dirs[name]))
             /\ UNCHANGED ncalls
        ELSE /\ stack' = Append(ReplaceTop(next),
                                Frame(OldSync, name, "deps",
                                      ReadExistingPins(wt[name]),
                                      PyBool(TRUE), <<>>, <<>>))
             /\ ncalls' = 0
             /\ pc' = pc
  /\ UNCHANGED <<ALL_REPOS, dirs, head, wt, commits, remoteTip, subInit,
                 skip_repo_names, updated_heads, log, cmd, runNo, start,
                 prevRun, lastCall>>
  /\ UNCHANGED fileVars

\* workspace_meta.py: the marker file and the walk up to it.
PathNames == {"w", "s"}
Directories == UNION { [1..n -> PathNames] : n \in 0..MaxPathLen }

\* Path.parent: the root is its own parent.
Parent(dir) == IF dir = <<>> THEN dir ELSE SubSeq(dir, 1, Len(dir) - 1)

\* WorkspaceMeta.save_metafile: the text written to the marker file.
SaveMetafile == <<"{", "\"version\"", ":", "0", "}", "\n">>

\* A text is a sequence of tokens: the punctuation of JSON, the number 0,
\* the string "version" and white space.
\* The position of the first token at or after i that is no white space.
RECURSIVE SkipSpace(_, _)
SkipSpace(text, i) ==
  IF i <= Len(text) /\ text[i] = "\n" THEN SkipSpace(text, i + 1) ELSE i

\* The outcome of scanning one JSON value: whether there is one, its type
\* and the position after it.
Scanned(ok, type, next) == [ok |-> ok, type |-> type, next |-> next]
NoValue == Scanned(FALSE, "none", 0)

\* The JSON decoder on the text from position i: a number, a string or an
\* object of "key": value members separated by commas.
RECURSIVE ScanValue(_, _)
RECURSIVE ScanMembers(_, _)
ScanValue(text, i) ==
  LET j == SkipSpace(text, i)
      k == SkipSpace(text, j + 1)
  IN IF j > Len(text) THEN NoValue
     ELSE CASE text[j] = "0" -> Scanned(TRUE, "int", j + 1)
            [] text[j] = "\"version\"" -> Scanned(TRUE, "str", j + 1)
            [] text[j] = "{" ->
                 IF k <= Len(text) /\ text[k] = "}"
                 THEN Scanned(TRUE, "dict", k + 1)
                 ELSE ScanMembers(text, k)
            [] OTHER -> NoValue

\* The members of an object, from the key at position i to the closing
\* brace.
ScanMembers(text, i) ==
  LET c == SkipSpace(text, i + 1)
  IN IF i > Len(text) \/ c > Len(text) THEN NoValue
     ELSE IF text[i] # "\"version\"" \/ text[c] # ":" THEN NoValue
     ELSE LET v == ScanValue(text, c + 1)
              e == SkipSpace(text, v.next)
          IN IF ~v.ok \/ e > Len(text) THEN NoValue
             ELSE IF text[e] = "}" THEN Scanned(TRUE, "dict", e + 1)
             ELSE IF text[e] = ","
             THEN ScanMembers(text, SkipSpace(text, e + 1))
             ELSE NoValue

\* The JSON decoder on a whole text: one value, white space around it and
\* nothing after it.
JsonDecode(text) ==
  LET v == ScanValue(text, 1)
  IN IF v.ok /\ SkipSpace(text, v.next) > Len(text)
     THEN [raised |-> "none", type |-> v.type]
     ELSE [raised |-> "JSONDecodeError", type |-> "none"]

\* json.load of a file with that text: what it raises.
JsonLoads(text) == JsonDecode(text).raised

\* WorkspaceMeta.load_metafile(p): the workspace of the directory holding
\* p; info.get needs the file to hold an object.
LoadMetafile(dir, text) ==
  LET info == JsonDecode(text)
  IN [found |-> TRUE,
      raised |-> IF info.raised # "none" THEN info.raised
                 ELSE IF info.type # "dict" THEN "AttributeError"
                 ELSE "none",
      dir |-> dir]

\* The loop of find: up from from_dir to the first directory with a marker
\* file.
RECURSIVE WalkUp(_, _)
WalkUp(marked, from_dir) ==
  IF from_dir \in marked THEN LoadMetafile(from_dir, SaveMetafile)
  ELSE IF Parent(from_dir) = from_dir
  THEN [found |-> FALSE, raised |-> "none", dir |-> from_dir]
  ELSE WalkUp(marked, Parent(from_dir))

\* workspace_meta.find(from_dir).
WorkspaceFind(marked, from_dir) == WalkUp(marked, from_dir)

\* workspace_meta.initialize(at_dir): the marker file is written.
Initialize(marked, at_dir) == marked \cup {at_dir}

\* workspace_meta.find_required(from_dir): without a workspace the command
\* ends with the CLIError of utils, which main does not catch.
WorkspaceFindRequired(marked, from_dir) ==
  LET ws == WorkspaceFind(marked, from_dir)
  IN IF ws.raised = "none" /\ ~ws.found
     THEN [found |-> FALSE, raised |-> "utils.CLIError", dir |-> from_dir]
     ELSE ws

\* The workspace the commands are run in, and the directory of a
\* repository in it (ws.dir / repo.name).
WsDir == <<"w">>
RepoPath(ws_dir, name) == Append(ws_dir, name)

\* A command starts: once on the state the workspace was found in, and then
\* again on the state the previous run left.
BeginRun(raised, frames) ==
  /\ pc # "running"
  /\ runNo < MaxRuns
  /\ runNo' = runNo + 1
  /\ prevRun' = [pc |-> pc, log |-> log]
  /\ start' = Snapshot
  /\ log' = <<>>
  /\ skip_repo_names' = {}
  /\ updated_heads' = <<>>
  /\ ncalls' = 0
  /\ pc' = CASE raised = "none" -> "running"
             [] raised = "CLIError" -> "error"
             [] OTHER -> "crash"
  /\ stack' = IF raised = "none" THEN frames ELSE <<>>
  /\ UNCHANGED <<ALL_REPOS, dirs, head, wt, commits, remoteTip, subInit, cmd,
                 lastCall>>
  /\ UNCHANGED fileVars

\* `checkout repo_name...` on the command line.
StartDoCheckout ==
  /\ cmd.name = "do_checkout"
  /\ BeginRun(WorkspaceFindRequired(markers, WsDir).raised,
              << Frame("do_checkout", <<>>, "checkout", <<>>,
                               PyBool(FALSE), <<>>, <<>>) >>)

\* repos.checkout called with a descriptor and keyword arguments.
StartCheckout ==
  /\ cmd.name = "checkout"
  /\ BeginRun("none", << Frame("checkout", cmd.names[1], "body", <<>>,
                               PyBool(~cmd.no_submodules),
                               cmd.exclude_submodules, cmd.exclude_deps) >>)

\* repos.get_from_dir(Path.cwd()) for a working directory that is the top
\* of the directory of that name in the workspace.
GetFromDir(all_repos, dirstate, marked, name) ==
  IF RepoDir(dirstate[name]) # "none" THEN RepoDir(dirstate[name])
  ELSE IF WorkspaceFindRequired(marked, RepoPath(WsDir, name)).raised # "none"
  THEN WorkspaceFindRequired(marked, RepoPath(WsDir, name)).raised
  ELSE IF ~DictHas(all_repos, name) THEN "CLIError"
  ELSE "none"

\* `sync` on the command line, run in the directory of cmd.names[1].
StartDoSync ==
  /\ cmd.name = "do_sync"
  /\ BeginRun(GetFromDir(ALL_REPOS, dirs, markers, cmd.names[1]),
              << Frame(OldSync, cmd.names[1], "deps",
                       ReadExistingPins(wt[cmd.names[1]]), PyBool(TRUE),
                       <<>>, <<>>) >>)

\* pins.sync called with a descriptor, its directory and keyword arguments.
StartSync ==
  /\ cmd.name = "sync"
  /\ BeginRun("none", << Frame(NewSync, cmd.names[1], "deps",
                               ReadExistingPins(wt[cmd.names[1]]),
                               PyBool(TRUE), cmd.exclude_submodules,
                               cmd.exclude_deps) >>)

(***************************************************************************)
(* The workspace specification: one command, run and run again, on every   *)
(* registry shape and a choice of workspaces.                              *)
(***************************************************************************)
Cmd(name, names, flags, exclude_deps, exclude_submodules) ==
  [name |-> name, names |-> names,
   sync |-> "--sync" \in flags,
   no_submodules |-> "--no-submodules" \in flags,
   no_deps |-> "--no-deps" \in flags,
   ro |-> "--ro" \in flags,
   exclude_deps |-> exclude_deps, exclude_submodules |-> exclude_submodules]

\* Keyword arguments of the direct calls: exclude_deps, exclude_submodules.
ExcludeArgs ==
  { << <<>>, <<>> >>, << <<D>>, <<>> >>, << <<B>>, << <<"y">> >> >>,
    << <<>>, << <<"b", ":", "x">>, <<"d", ":">> >> >>,
    << <<>>, << <<"b", ":">> >> >> }

CheckoutCommands ==
  { Cmd("do_checkout", ns, fl, <<>>, <<>>) :
      ns \in { <<A>>, <<A, D>>, <<D, A>>, <<Unknown>>, <<D, Unknown, A>> },
      fl \in { {}, {"--sync"}, {"--no-deps"}, {"--no-submodules", "--ro"} } }
  \cup { Cmd("checkout", <<A>>, {}, x[1], x[2]) : x \in ExcludeArgs }

SyncCommands ==
  { Cmd("do_sync", <<n>>, {}, <<>>, <<>>) : n \in {A, D} }
  \cup { Cmd("sync", <<A>>, {}, x[1], x[2]) : x \in ExcludeArgs }

\* Whether the command reads manifests at all.
Syncs(c) == c.sync \/ c.name \in {"sync", "do_sync"}

\* The workspaces a command is run in: sync needs its repository checked
\* out; checkout is tried on empty, partial and full workspaces.
Workspaces(c) ==
  IF c.name \in {"sync", "do_sync"}
  THEN { [AllPresent EXCEPT ![D] = s] : s \in {"repo", "plain", "absent"} }
  ELSE { [n \in Names |-> "absent"], AllPresent,
         [n \in Names |-> IF n = A THEN "repo" ELSE "absent"],
         [n \in Names |-> IF n = D THEN "repo" ELSE "absent"],
         [n \in Names |-> IF n = D THEN "plain" ELSE "absent"],
         [n \in Names |-> IF n \in {B, C} THEN "repo" ELSE "absent"] }

InitWorkspace ==
  /\ ALL_REPOS \in Registries
  /\ cmd \in CheckoutCommands \cup SyncCommands
  /\ dirs \in Workspaces(cmd)
  /\ \E h \in Revs :
       /\ Syncs(cmd) \/ h = <<"1">>
       /\ head = [n \in Names |-> h]
  /\ \E sa \in Schemes, sb \in Schemes :
       /\ Syncs(cmd) \/ (sa = "same" /\ sb = "same")
       /\ commits = [n \in Names |-> [v \in Revs |->
            SchemeFile(ALL_REPOS, n,
                       CASE n = A -> sa [] n = B -> sb [] OTHER -> "same",
                       v)]]
  /\ wt = [n \in Names |-> commits[n][head[n]]]
  /\ remoteTip = [n \in Names |-> NextRev(head[n])]
  /\ subInit = NothingInitialized
  /\ pc = "idle"
  /\ stack = <<>>
  /\ skip_repo_names = {}
  /\ updated_heads = <<>>
  /\ log = <<>>
  /\ ncalls = 0
  /\ runNo = 0
  /\ requirements = NoRequirements
  /\ markers \in IF cmd.name \in {"do_checkout", "do_sync"}
                 THEN {{}, {WsDir}} ELSE {{WsDir}}
  /\ start = Snapshot
  /\ prevRun = NoRun
  /\ lastCall = NoCall

NextWorkspace ==
  \/ StartDoCheckout
  \/ StartCheckout
  \/ StartDoSync
  \/ StartSync
  \/ DoCheckoutFind
  \/ DoCheckoutSync
  \/ CheckoutBody
  \/ CheckoutDep
  \/ SyncDep
  \/ OldSyncDep
  \/ Return

SpecWorkspace == InitWorkspace /\ [][NextWorkspace]_vars

(***************************************************************************)
(* Properties of checkout and sync.                                        *)
(***************************************************************************)
\* How often the running command did `op` on the repository of that name.
Count(op, name) ==
  Cardinality({ k \in 1..Len(log) : log[k].op = op /\ log[k].repo = name })

IsCheckoutCmd == cmd.name \in {"checkout", "do_checkout"}
IsSyncCmd == cmd.name \in {"sync", "do_sync"}

\* A checkout of A, dependencies included and nothing excluded, on the
\* diamond registry in an empty workspace, has run to its end.
DiamondCheckoutDone ==
  /\ IsCheckoutCmd
  /\ cmd.names = <<A>>
  /\ ~cmd.no_deps
  /\ cmd.exclude_deps = <<>>
  /\ ALL_REPOS = RegistryDiamond
  /\ \A n \in Names : start.dirs[n] = "absent"
  /\ pc = "done"

\* C1: one checkout command clones no repository more than once, whatever the
\* registry and the workspace; a checkout of A on the diamond A->{B,C},
\* B->{D}, C->{D} in an empty workspace has cloned D exactly once when it ends.
C1_CloneAtMostOnce ==
  /\ \A n \in Names : Count("clone", n) <= 1
  /\ DiamondCheckoutDone => Count("clone", D) = 1

\* The diamond checkout has ended with all four repositories cloned, D once.
C1_Witness ==
  /\ DiamondCheckoutDone
  /\ \A n \in Names : Count("clone", n) = 1

\* A sync of A on the diamond registry has run to its end, having met D
\* under B and again under C, both of which pin it.
DiamondSyncDone ==
  /\ IsSyncCmd
  /\ cmd.names = <<A>>
  /\ ALL_REPOS = RegistryDiamond
  /\ pc = "done"
  /\ DictHas(ReadExistingPins(wt[B]), D)
  /\ DictHas(ReadExistingPins(wt[C]), D)
  /\ Count("syncing", B) = 1
  /\ Count("syncing", C) = 1

\* C2: one command syncs no dependency more than once: its revision is
\* compared at most once, it is fetched and checked out at most once, and on
\* the diamond D is processed at most once although B and C both pin it.
C2_SyncAtMostOnce ==
  \A n \in Names :
    /\ Count("syncing", n) <= 1
    /\ Count("revparse", n) <= 1
    /\ Count("fetch", n) <= 1
    /\ Count("checkout", n) <= 1

\* The sync of the diamond has ended: D was processed once and found to be a
\* duplicate the second time.
C2_Witness ==
  /\ DiamondSyncDone
  /\ Count("syncing", D) = 1
  /\ Count("duplicate", D) = 1

\* The operations that clone or sync a repository.
TouchOps == {"clone", "syncing", "revparse", "fetch", "checkout"}

\* C3: in a call of checkout or sync with exclude_deps patterns, a dependency
\* whose name matches a pattern is neither cloned nor synced, at any depth
\* of the recursion.
C3_ExcludedNeverTouched ==
  \A n \in Names :
    (/\ cmd.name \in {"checkout", "sync"}
     /\ ExcludeDep(cmd.exclude_deps, n)
     /\ n # cmd.names[1])
    => \A op \in TouchOps : Count(op, n) = 0

\* C4: checkout and sync make no more recursive calls than the registry has
\* repositories, and the stack never grows beyond those calls, also on a
\* registry with a cycle.
C4_CallsBounded ==
  /\ ncalls <= Len(ALL_REPOS)
  /\ Len(stack) <= Len(ALL_REPOS) + 2

\* A command on a registry with a cycle has run to its end after as many
\* recursive calls as there are repositories.
C4_Witness ==
  /\ ALL_REPOS \in {RegistryCycle, RegistrySelf}
  /\ pc = "done"
  /\ ncalls = Len(ALL_REPOS)

\* C8: for a dependency that sync processes, if HEAD is at the pinned
\* revision no fetch and no checkout is issued for it; otherwise a fetch and
\* then a checkout of the pinned revision, after which HEAD is at it.
C8_SyncToPin ==
  \A k \in 1..Len(log) :
    log[k].op = "revparse" =>
      LET dep == log[k].repo
          pinned == log[k - 1].arg
          current == log[k].arg
      IN /\ log[k - 1] = Event("syncing", dep, pinned)
         /\ head[dep] = pinned
         /\ IF current = pinned
            THEN Count("fetch", dep) = 0 /\ Count("checkout", dep) = 0
            ELSE /\ log[k + 1] = Event("fetch", dep, <<>>)
                 /\ log[k + 2] = Event("checkout", dep, pinned)

\* A sync has ended that found one dependency at its pin and moved another.
C8_Witness ==
  /\ pc = "done"
  /\ \E n \in Names : Count("already", n) = 1 /\ Count("checkout", n) = 0
  /\ \E n \in Names :
       /\ Count("checkout", n) = 1
       /\ head[n] # start.head[n]

\* C9: a sync run again directly after a sync that ended without error
\* issues no fetch and no checkout and leaves every HEAD where it was.
C9_SyncIdempotent ==
  (IsSyncCmd /\ runNo >= 2 /\ prevRun.pc = "done")
  => /\ \A n \in Names : Count("fetch", n) = 0 /\ Count("checkout", n) = 0
     /\ head = start.head

\* The repositories a walk over dependency edges comes to from the
\* repositories in from, not following an edge into an excluded name.
DepsOf(all_repos, n) ==
  IF DictHas(all_repos, n)
  THEN { DictGet(all_repos, n).deps[i] :
           i \in 1..Len(DictGet(all_repos, n).deps) }
  ELSE {}

RECURSIVE ReachableIn(_, _, _, _)
ReachableIn(all_repos, from, exclude_deps, steps) ==
  IF steps = 0 THEN from
  ELSE ReachableIn(all_repos,
                   from \cup { d \in UNION { DepsOf(all_repos, n) : n \in from } :
                                 ~ExcludeDep(exclude_deps, d) },
                   exclude_deps, steps - 1)

Reachable(all_repos, from, exclude_deps) ==
  ReachableIn(all_repos, from, exclude_deps, Cardinality(Names))

\* The registered names in registration order, joined by ", ".
RegisteredNames == [i \in 1..Len(ALL_REPOS) |-> ALL_REPOS[i][1]]

RECURSIVE CommaJoined(_)
CommaJoined(names) ==
  IF names = <<>> THEN <<>>
  ELSE IF Len(names) = 1 THEN names[1]
  ELSE names[1] \o <<", ">> \o CommaJoined(Tail(names))

\* C15: find_required returns the registered descriptor of a registered
\* name; for an unregistered name on the command line of checkout the command
\* ends with exit code 1 and an error that holds "No repository matching" and
\* the registered names comma-joined in registration order, and it has cloned
\* nothing but what the names before it asked for.
C15_FindRequired ==
  cmd.name = "do_checkout" =>
    /\ \A n \in DictKeys(ALL_REPOS) :
         /\ FindRequired(ALL_REPOS, n).raised = "none"
         /\ FindRequired(ALL_REPOS, n).repo = DictGet(ALL_REPOS, n)
    /\ pc = "done" =>
         \A k \in 1..Len(cmd.names) : DictHas(ALL_REPOS, cmd.names[k])
    /\ \A j \in 1..Len(log) :
         log[j].op = "stderr" =>
           /\ j = Len(log)
           /\ pc = "error"
           /\ stack = <<>>
           /\ Search(<<"No repository matching">>, log[j].arg)
           /\ Search(CommaJoined(RegisteredNames), log[j].arg)
           /\ \E k \in 1..Len(cmd.names) :
                /\ cmd.names[k] = log[j].repo
                /\ ~DictHas(ALL_REPOS, cmd.names[k])
                /\ \A i \in 1..(k - 1) : DictHas(ALL_REPOS, cmd.names[i])
                /\ \A n \in Names :
                     Count("clone", n) > 0 =>
                       n \in Reachable(ALL_REPOS,
                                       { cmd.names[i] : i \in 1..(k - 1) },
                                       <<>>)

\* `checkout d u a` has cloned D and ended on the unregistered name, A not
\* cloned, the registry holding several names.
C15_Witness ==
  /\ cmd.name = "do_checkout"
  /\ cmd.names = <<D, Unknown, A>>
  /\ pc = "error"
  /\ Len(log) >= 2
  /\ log[Len(log)].op = "stderr"
  /\ Count("clone", D) = 1
  /\ Count("clone", A) = 0
  /\ start.dirs[A] = "absent"
  /\ Len(ALL_REPOS) >= 3

\* The loop of sync is at a declared dependency that matches no exclusion
\* pattern, was not met before and has no entry in the pins read.
AtUnpinnedDep ==
  /\ pc = "running"
  /\ stack # <<>>
  /\ Top.fn \in {NewSync, OldSync}
  /\ Top.i <= Len(DictGet(ALL_REPOS, Top.repo).deps)
  /\ LET dep_name == DictGet(ALL_REPOS, Top.repo).deps[Top.i]
     IN /\ ~DictHas(Top.pins, dep_name)
        /\ ~DictHas(updated_heads, dep_name)
        /\ ~ExcludeDep(Top.exclude_deps, dep_name)

\* The dependency was passed over: a warning, nothing else, and the loop is
\* at its next dependency.
PassedOver ==
  /\ log' = Append(log, Event("no_pin",
                              DictGet(ALL_REPOS, Top.repo).deps[Top.i], <<>>))
  /\ updated_heads' = updated_heads
  /\ head' = head
  /\ wt' = wt
  /\ subInit' = subInit
  /\ pc' = "running"
  /\ stack' = [stack EXCEPT ![Len(stack)].i = @ + 1]

\* A sync started on a repository without a manifest file has ended; the
\* command found the workspace the repository is in.
SyncWithoutManifestEnded ==
  /\ cmd.name \in {"sync", "do_sync"}
  /\ pc \notin {"idle", "running"}
  /\ DictHas(ALL_REPOS, cmd.names[1])
  /\ start.dirs[cmd.names[1]] = "repo"
  /\ cmd.name = "do_sync" =>
       WorkspaceFindRequired(markers, RepoPath(WsDir, cmd.names[1])).found
  /\ ~start.wt[cmd.names[1]].exists

\* C18: sync passes over a declared dependency without a pinned revision
\* with a warning only: no fetch, no checkout, no entry in updated_heads, no
\* recursive call, and the loop goes on with the next dependency; a sync
\* of a repository without a manifest file ends without error and leaves
\* every working tree as it was.
C18_NoPinSkipped ==
  /\ [][AtUnpinnedDep => PassedOver]_vars
  /\ [](SyncWithoutManifestEnded =>
          /\ pc = "done"
          /\ head = start.head
          /\ wt = start.wt
          /\ \A k \in 1..Len(log) : log[k].op \in {"no_pin", "exclude_dep"})

\* A sync has ended that passed over a dependency without a pin and then
\* synced a later one.
C18_Witness ==
  /\ IsSyncCmd
  /\ pc = "done"
  /\ \E j \in 1..Len(log), k \in 1..Len(log) :
       /\ j < k
       /\ log[j].op = "no_pin"
       /\ log[k].op = "checkout"

\* The repositories named on the command line of the checkout.
CheckoutRoots == { cmd.names[i] : i \in 1..Len(cmd.names) }

\* C19: when a checkout with dependencies has ended without error, every
\* repository reachable from the ones it was asked for, through dependency
\* edges into names that match no exclude_deps pattern, is a working tree in
\* the workspace, cloned by this command if it was not there; with
\* --no-deps the repositories asked for are there and nothing else was
\* cloned.
C19_CheckoutComplete ==
  (IsCheckoutCmd /\ pc = "done") =>
    IF cmd.no_deps
    THEN /\ \A n \in CheckoutRoots : dirs[n] = "repo"
         /\ \A n \in Names : Count("clone", n) > 0 => n \in CheckoutRoots
    ELSE \A n \in Reachable(ALL_REPOS, CheckoutRoots, cmd.exclude_deps) :
           /\ dirs[n] = "repo"
           /\ start.dirs[n] = "absent" => Count("clone", n) = 1

\* A checkout of A has ended in a workspace that held D only: A and at least
\* one more repository were cloned, D was found in place.
C19_Witness ==
  /\ IsCheckoutCmd
  /\ pc = "done"
  /\ ~cmd.no_deps
  /\ cmd.names = <<A>>
  /\ start.dirs[A] = "absent"
  /\ start.dirs[D] = "repo"
  /\ D \in Reachable(ALL_REPOS, {A}, cmd.exclude_deps)
  /\ Count("clone", D) = 0
  /\ Count("clone", A) = 1
  /\ Cardinality({ n \in Names : Count("clone", n) = 1 }) >= 2

\* The submodule paths a `git submodule update --init` event initialized.
InitializedBy(ev) ==
  UpdateSubmodules({}, DictGet(ALL_REPOS, ev.repo), ev.arg)

\* The submodules of a repository that match no exclude_submodules pattern
\* of the command.
WantedSubmodules(n) ==
  LET wanted == FilteredSubmodules(cmd.exclude_submodules,
                                   DictGet(ALL_REPOS, n))
  IN { wanted[k] : k \in 1..Len(wanted) }

\* C20: for every dependency with submodules that a sync has processed, at
\* whatever depth and whether or not it had to be moved, the sync has
\* initialized the submodules matching no exclude_submodules pattern, and
\* those only.
C20_SyncSubmodules ==
  (IsSyncCmd /\ pc = "done") =>
    \A n \in Names :
      (Count("revparse", n) > 0 /\ DictGet(ALL_REPOS, n).submodules) =>
        /\ WantedSubmodules(n) # {} =>
             \E k \in 1..Len(log) :
               log[k].op = "update_submodules" /\ log[k].repo = n
        /\ \A k \in 1..Len(log) :
             (log[k].op = "update_submodules" /\ log[k].repo = n) =>
               InitializedBy(log[k]) = WantedSubmodules(n)

\* C21: in a checkout with submodule initialization requested, every
\* repository the command has cloned that declares submodules, the root or a
\* dependency at any depth, has exactly its submodules matching no
\* exclude_submodules pattern initialized, whatever was left of the
\* submodules of the repository it was reached from.
C21_CheckoutSubmodules ==
  (IsCheckoutCmd /\ ~cmd.no_submodules /\ ~cmd.sync) =>
    \A n \in Names :
      (Count("clone", n) > 0 /\ DictGet(ALL_REPOS, n).submodules) =>
        subInit[n] = WantedSubmodules(n)

\* The pins of the manifest the sync found in the repository it was started
\* on.
RootPins == ReadExistingPins(start.wt[cmd.names[1]])

\* C22: when a sync without exclusion patterns has ended without error,
\* every direct dependency of the repository it was started on that its
\* manifest has a pin for is at that pin, also a dependency that an earlier
\* dependency depends on and pins at another revision.
C22_DirectDepsAtRootPins ==
  (IsSyncCmd /\ pc = "done" /\ cmd.exclude_deps = <<>>
     /\ cmd.exclude_submodules = <<>>) =>
    \A d \in DepsOf(ALL_REPOS, cmd.names[1]) :
      DictHas(RootPins, d) => head[d] = DictGet(RootPins, d)

\* The activations of sync that were entered by the recursive call of
\* another activation of sync.
SyncFns == {NewSync, OldSync}
RecursiveSyncs ==
  { k \in 2..Len(stack) :
      stack[k].fn \in SyncFns /\ stack[k - 1].fn \in SyncFns }

\* An activation of sync runs on the manifest its repository has at the
\* revision recorded for it in updated_heads, which is the revision its
\* working tree is at.
OnPinnedManifest(k) ==
  LET d == stack[k].repo
  IN /\ DictHas(updated_heads, d)
     /\ head[d] = DictGet(updated_heads, d)
     /\ stack[k].pins =
          ReadExistingPins(commits[d][DictGet(updated_heads, d)])

\* Every comparison of a HEAD in the log follows directly on the line that
\* announces the dependency, printed once its pin is in updated_heads.
RecordedFirst ==
  \A k \in 1..Len(log) :
    log[k].op = "revparse" =>
      /\ k > 1
      /\ DictHas(updated_heads, log[k].repo)
      /\ log[k - 1] = Event("syncing", log[k].repo,
                            DictGet(updated_heads, log[k].repo))

\* A step of sync moves a HEAD only to the revision that the same step, or
\* an earlier one, recorded in updated_heads.
MovesRecorded ==
  (stack # <<>> /\ Top.fn \in SyncFns) =>
    \A n \in Names :
      head'[n] # head[n] =>
        /\ ~DictHas(updated_heads, n)
        /\ DictHas(updated_heads', n)
        /\ DictGet(updated_heads', n) = head'[n]

\* C23: sync is pre-order: the manifest of a dependency is read after its
\* working tree was brought to its pin, so the pins applied to its own
\* dependencies are those of its manifest at the pinned revision, not those
\* of the revision it was at before; and the pin of a dependency is in
\* updated_heads before its HEAD is compared or moved.
C23_SyncPreOrder ==
  /\ [](\A k \in RecursiveSyncs : OnPinnedManifest(k))
  /\ []RecordedFirst
  /\ [][MovesRecorded]_vars

\* A sync is inside the recursive call for a dependency it has moved, whose
\* manifest at the pinned revision pins other revisions than the manifest
\* it had before.
C23_Witness ==
  /\ pc = "running"
  /\ \E k \in RecursiveSyncs :
       LET d == stack[k].repo
       IN /\ head[d] # start.head[d]
          /\ stack[k].pins # <<>>
          /\ stack[k].pins # ReadExistingPins(start.wt[d])
          /\ Count("checkout", d) = 1

\* checkout is at its first line, on a repository it has not visited yet
\* whose directory is in that state.
EntersCheckout(state) ==
  /\ pc = "running"
  /\ stack # <<>>
  /\ Top.fn = "checkout"
  /\ Top.phase = "body"
  /\ Top.repo \notin skip_repo_names
  /\ dirs[Top.repo] = state

\* The step of checkout on a working tree that is already there: no clone,
\* the directory and its revision are left alone, and the walk goes on to
\* the first dependency.
SkipsExisting ==
  EntersCheckout("repo") =>
    /\ log' = Append(log, Event("exists", Top.repo, <<>>))
    /\ dirs' = dirs /\ head' = head /\ wt' = wt /\ subInit' = subInit
    /\ pc' = "running"
    /\ Len(stack') = Len(stack)
    /\ stack'[Len(stack)].repo = Top.repo
    /\ stack'[Len(stack)].phase = "deps"
    /\ stack'[Len(stack)].i = 1

\* The step of checkout on a directory that is no working tree: the command
\* ends with a CLIError, nothing is cloned, no dependency of the repository
\* is looked at and the workspace stays as it is.
FailsOnCorrupt ==
  EntersCheckout("plain") =>
    /\ pc' = "error"
    /\ stack' = <<>>
    /\ log' = log
    /\ ncalls' = ncalls
    /\ skip_repo_names' = skip_repo_names
    /\ dirs' = dirs /\ head' = head /\ wt' = wt /\ subInit' = subInit

\* What a checkout has cloned is in the workspace however the command ends,
\* a working tree found in place was not cloned, and after a checkout with
\* dependencies that ended without error the dependencies of a working tree
\* found in place are there.
ClonedStay ==
  IsCheckoutCmd =>
    \A n \in Names :
      /\ Count("clone", n) > 0 => dirs[n] = "repo"
      /\ start.dirs[n] = "repo" => Count("clone", n) = 0
      /\ (pc = "done" /\ ~cmd.no_deps /\ Count("exists", n) > 0) =>
           \A d \in DepsOf(ALL_REPOS, n) :
             ~ExcludeDep(cmd.exclude_deps, d) => dirs[d] = "repo"

\* C25: checkout does not clone a repository whose directory is a working
\* tree and still walks its dependencies; a directory that is no working
\* tree ends the checkout with an error before that repository is cloned
\* or any of its dependencies is visited, and the repositories cloned
\* earlier in the run stay in place.
C25_ExistingAndCorrupt ==
  /\ [][SkipsExisting /\ FailsOnCorrupt]_vars
  /\ []ClonedStay

\* A checkout of A has failed on the directory of D, which is no working
\* tree, after it had cloned A and another repository, which are there.
C25_Witness ==
  /\ IsCheckoutCmd
  /\ pc = "error"
  /\ start.dirs[D] = "plain"
  /\ dirs[D] = "plain"
  /\ Count("clone", D) = 0
  /\ Count("clone", A) = 1
  /\ dirs[A] = "repo"
  /\ \E n \in Names \ {A, D} : Count("clone", n) = 1 /\ dirs[n] = "repo"

(***************************************************************************)
(* PyPackage (roller.py): requirement files.  A file is the list readlines *)
(* returns: lines of characters, each with its line end if it has one.     *)
(***************************************************************************)
MaxLines == 2

\* \s and \S of the re module, on the characters used here.
IsSpace(c) == c \in {" ", "\n"}

\* How many characters of text, from position i on, satisfy \s (space = TRUE)
\* or \S (space = FALSE) in a row.
RECURSIVE Run(_, _, _)
Run(text, i, space) ==
  IF i > Len(text) \/ IsSpace(text[i]) # space THEN 0
  ELSE 1 + Run(text, i + 1, space)

\* re.match(f"^\\s*{re.escape(package_name)}==\\S+", line): the length of
\* m.group(0), or 0 when there is no match.
MatchPackageSpec(package_name, line) ==
  LET lead == Run(line, 1, TRUE)
      eq == lead + Len(package_name)
      version == Run(line, eq + 3, FALSE)
  IN IF /\ eq + 2 <= Len(line)
        /\ SubSeq(line, lead + 1, eq) = package_name
        /\ line[eq + 1] = "="
        /\ line[eq + 2] = "="
        /\ version >= 1
     THEN eq + 2 + version
     ELSE 0

\* The line new_lines gets for one line of the file.
RewriteLine(package_name, line, version) ==
  LET existing_spec == MatchPackageSpec(package_name, line)
      tail == SubSeq(line, existing_spec + 1, Len(line))
  IN IF existing_spec > 0
     THEN package_name \o <<"=", "=">> \o version \o tail
     ELSE line

\* PyPackage.update_requirements_file: `found` is bound only by a matching
\* line, so reading it after a scan without a match raises.
UpdateRequirementsFile(package_name, lines, version) ==
  LET found == \E k \in 1..Len(lines) :
                 MatchPackageSpec(package_name, lines[k]) > 0
  IN IF found
     THEN [raised |-> "none",
           lines |-> [k \in 1..Len(lines) |->
                        RewriteLine(package_name, lines[k], version)]]
     ELSE [raised |-> "UnboundLocalError", lines |-> lines]

\* A requirements file on disk, and none.
ReqFile(lines) == [exists |-> TRUE, lines |-> lines]
NoReqFile == [exists |-> FALSE, lines |-> <<>>]

\* The loop of PyPackage.update over update_requirements, from the file at
\* index i on: the files as it leaves them and the exception, if any.
RECURSIVE UpdateRequirements(_, _, _, _, _)
UpdateRequirements(package_name, update_requirements, i, version, reqs) ==
  IF i > Len(update_requirements) THEN [raised |-> "none", reqs |-> reqs]
  ELSE LET req_file == update_requirements[i]
           req == DictGet(reqs, req_file)
           u == UpdateRequirementsFile(package_name, req.lines, version)
       IN IF ~DictHas(reqs, req_file) \/ ~req.exists
          THEN [raised |-> "CLIError", reqs |-> reqs]
          ELSE IF u.raised # "none"
          THEN [raised |-> u.raised, reqs |-> reqs]
          ELSE UpdateRequirements(package_name, update_requirements, i + 1,
                                  version,
                                  DictSet(reqs, req_file, ReqFile(u.lines)))

\* What `pip index versions` printed, line by line: the versions of an
\* "Available versions:" line, or a line of another kind.
AvailableVersions(versions) == [available |-> TRUE, versions |-> versions]
OtherLine == [available |-> FALSE, versions |-> <<>>]

\* The scan of the output for the first "Available versions:" line.
RECURSIVE FoundVersion(_, _)
FoundVersion(output, i) ==
  IF i > Len(output) THEN [raised |-> "CLIError", version |-> <<>>]
  ELSE IF output[i].available
  THEN [raised |-> "none", version |-> output[i].versions[1]]
  ELSE FoundVersion(output, i + 1)

\* PyPackage.update, given the directory state of the repository, whether
\* pip ended with exit code 0 and what it printed.
PyPackageUpdate(dirstate, pip_ok, output, package_name, update_requirements, reqs) ==
  LET found == FoundVersion(output, 1)
  IN IF RepoDir(dirstate) # "none"
     THEN [raised |-> RepoDir(dirstate), reqs |-> reqs]
     ELSE IF ~pip_ok
     THEN [raised |-> "CalledProcessError", reqs |-> reqs]
     ELSE IF found.raised # "none"
     THEN [raised |-> found.raised, reqs |-> reqs]
     ELSE UpdateRequirements(package_name, update_requirements, 1,
                             found.version, reqs)

(***************************************************************************)
(* do_roll (__main__.py): the actions of a rolling schedule, in order.     *)
(***************************************************************************)
\* The actions a schedule lists.
GitRepoHead(dep_repo_name) ==
  [kind |-> "GitRepoHead", dep_repo_name |-> dep_repo_name, via |-> <<>>,
   package_name |-> <<>>, update_requirements |-> <<>>]
GitRepoViaDep(dep_repo_name, via) ==
  [kind |-> "GitRepoViaDep", dep_repo_name |-> dep_repo_name, via |-> via,
   package_name |-> <<>>, update_requirements |-> <<>>]
PyPackage(package_name, update_requirements) ==
  [kind |-> "PyPackage", dep_repo_name |-> <<>>, via |-> <<>>,
   package_name |-> package_name,
   update_requirements |-> update_requirements]

GitRepoRevision(dep_repo_name, revision) ==
  [kind |-> "GitRepoRevision", dep_repo_name |-> dep_repo_name,
   via |-> <<>>, package_name |-> <<>>, update_requirements |-> <<>>,
   revision |-> revision]
UpgradePyRequirements ==
  [kind |-> "UpgradePyRequirements", dep_repo_name |-> <<>>, via |-> <<>>,
   package_name |-> <<>>, update_requirements |-> <<>>]

\* GitRepoRevision.update with a revision_callback that returns revision:
\* the pin becomes that revision.
GitRepoRevisionUpdate(all_repos, pin_file, dep_repo_name, revision) ==
  IF ~DictHas(all_repos, dep_repo_name) THEN Failed("KeyError", pin_file)
  ELSE SetPinRevision(pin_file, dep_repo_name, revision)

\* UpgradePyRequirements.update: `pip install -r requirements.txt` run with
\* check=True; no file of the repository is written.
UpgradePyRequirementsUpdate(dirstate, pip_ok) ==
  IF RepoDir(dirstate) # "none" THEN RepoDir(dirstate)
  ELSE IF ~pip_ok THEN "CalledProcessError"
  ELSE "none"

\* A descriptor with its rolling_schedules, a dict from schedule name to
\* actions; None is the empty dict, as do_roll only tests it for truth.
WithSchedules(info, rolling_schedules) ==
  [name |-> info.name, ro_url |-> info.ro_url, rw_url |-> info.rw_url,
   deps |-> info.deps, submodules |-> info.submodules,
   tracking_branch |-> info.tracking_branch,
   rolling_schedules |-> rolling_schedules]

\* action.update(ws, r) for the repository of that name: the manifest and
\* the requirement files as the action leaves them, and the exception.
ApplyAction(action, name, pin_file, reqs, pip_ok, output) ==
  CASE action.kind = "GitRepoHead" ->
         LET res == GitRepoHeadUpdate(ALL_REPOS, remoteTip, pin_file,
                                      action.dep_repo_name)
         IN [raised |-> res.raised, file |-> res.file, reqs |-> reqs]
    [] action.kind = "GitRepoViaDep" ->
         LET via_dir == IF action.via \in Names
                        THEN GitDir(wt[action.via], commits[action.via])
                        ELSE GitDir(NoFile, <<>>)
             res == GitRepoViaDepUpdate(ALL_REPOS, dirs, via_dir, pin_file,
                                        action.dep_repo_name, action.via)
         IN [raised |-> res.raised, file |-> res.file, reqs |-> reqs]
    [] action.kind = "GitRepoRevision" ->
         LET res == GitRepoRevisionUpdate(ALL_REPOS, pin_file,
                                          action.dep_repo_name,
                                          action.revision)
         IN [raised |-> res.raised, file |-> res.file, reqs |-> reqs]
    [] action.kind = "UpgradePyRequirements" ->
         [raised |-> UpgradePyRequirementsUpdate(dirs[name], pip_ok),
          file |-> pin_file, reqs |-> reqs]
    [] action.kind = "PyPackage" ->
         LET res == PyPackageUpdate(dirs[name], pip_ok, output,
                                    action.package_name,
                                    action.update_requirements, reqs)
         IN [raised |-> res.raised, file |-> pin_file, reqs |-> res.reqs]

\* A loop that goes on to the next action whatever the last one raised.
RollNeverAborts(raised) == FALSE

\* An exception of action.update leaves the loop of do_roll.
RollAborts(raised) == raised # "none"

\* The schedule the running roll applies.
Schedule ==
  DictGet(DictGet(ALL_REPOS, cmd.names[1]).rolling_schedules, cmd.schedule)

\* What pip may print.
PipOutputs ==
  { <<OtherLine>>, <<OtherLine, AvailableVersions(<< <<"2">>, <<"1">> >>)>> }

\* One iteration of the loop of do_roll.
RollAction ==
  /\ pc = "running"
  /\ stack # <<>>
  /\ Top.fn = "do_roll"
  /\ Top.i <= Len(Schedule)
  /\ \E pip_ok \in BOOLEAN, output \in PipOutputs :
     \E action \in {Schedule[Top.i]} :
     \E res \in {ApplyAction(action, Top.repo, wt[Top.repo], requirements,
                              pip_ok, output)} :
          /\ wt' = [wt EXCEPT ![Top.repo] = res.file]
          /\ requirements' = res.reqs
          /\ log' = Append(log, Event(action.kind, Top.repo,
                                      <<Top.i, res.raised>>))
          /\ lastCall' = [op |-> action.kind, action |-> action,
                          raised |-> res.raised, pip_ok |-> pip_ok,
                          output |-> output, before |-> requirements]
          /\ IF RollAborts(res.raised)
             THEN Raise(res.raised)
             ELSE stack' = NextIteration /\ pc' = pc
  /\ UNCHANGED <<ALL_REPOS, dirs, head, commits, remoteTip, subInit,
                 skip_repo_names, updated_heads, ncalls, cmd, runNo, start,
                 prevRun, markers>>

\* What do_roll raises before its loop.
RollLookup(all_repos, dirstate, marked, name, schedule_name) ==
  IF GetFromDir(all_repos, dirstate, marked, name) # "none"
  THEN GetFromDir(all_repos, dirstate, marked, name)
  ELSE IF DictGet(all_repos, name).rolling_schedules = <<>> THEN "CLIError"
  ELSE IF ~DictHas(DictGet(all_repos, name).rolling_schedules, schedule_name)
  THEN "CLIError"
  ELSE "none"

\* `roll schedule` on the command line, run in the directory of
\* cmd.names[1].
StartDoRoll ==
  /\ cmd.name = "do_roll"
  /\ BeginRun(RollLookup(ALL_REPOS, dirs, markers, cmd.names[1],
                         cmd.schedule),
              << Frame("do_roll", cmd.names[1], "actions", <<>>,
                       PyBool(FALSE), <<>>, <<>>) >>)

(***************************************************************************)
(* The roll specification: one `roll` command in the working tree of A.    *)
(***************************************************************************)
\* The package rolled and the requirement files of the repository.
P == <<"p">>
R1 == "requirements.txt"
R2 == "dev-requirements.txt"

\* Lines of a requirements file: the package pinned, pinned with a marker
\* after a space, pinned with a marker right after the version, pinned on an
\* indented line, another package, and the package without a version.
ReqLines ==
  { <<"p", "=", "=", "1", "\n">>,
    <<"p", "=", "=", "1", " ", ";", "m", "\n">>,
    <<"p", "=", "=", "1", ";", "m", "\n">>,
    <<" ", "p", "=", "=", "1", "\n">>,
    <<"q", "=", "=", "1", "\n">>,
    <<"p", "=", "=", "\n">> }

ReqFiles == UNION { [1..n -> ReqLines] : n \in 0..MaxLines }

\* The rolling_schedules a descriptor may carry.
ScheduleDicts ==
  { <<>>,
    << <<"continuous", <<GitRepoHead(D), GitRepoHead(B)>> >>,
       <<"nightly", <<GitRepoHead(B), PyPackage(P, <<R1, R2>>),
                      GitRepoViaDep(D, B)>> >>,
       <<"monthly", <<GitRepoRevision(D, <<"2">>), UpgradePyRequirements,
                      GitRepoRevision(C, <<"1">>)>> >> >> }

\* The registry RegistryShadow with rolling schedules for A.
RegistryRoll(rolling_schedules) ==
  [k \in 1..Len(RegistryShadow) |->
     << RegistryShadow[k][1],
        WithSchedules(RegistryShadow[k][2],
                      IF RegistryShadow[k][1] = A THEN rolling_schedules
                      ELSE <<>>) >>]

RollCmd(schedule) ==
  [name |-> "do_roll", names |-> <<A>>, schedule |-> schedule]

InitRoll ==
  /\ \E d \in ScheduleDicts : ALL_REPOS = RegistryRoll(d)
  /\ cmd \in { RollCmd(n) :
                n \in {"continuous", "nightly", "monthly", "weekly"} }
  /\ dirs \in { AllPresent, [AllPresent EXCEPT ![B] = "plain"] }
  /\ head = [n \in Names |-> <<"1">>]
  /\ \E sb \in {"same", "flip"} :
       commits = [n \in Names |-> [v \in Revs |->
                    SchemeFile(ALL_REPOS, n, IF n = B THEN sb ELSE "same", v)]]
  /\ \E sa \in {"same", "first"} :
       wt = [n \in Names |->
               IF n = A THEN SchemeFile(ALL_REPOS, A, sa, head[A])
               ELSE commits[n][head[n]]]
  /\ remoteTip = [n \in Names |-> NextRev(head[n])]
  /\ subInit = NothingInitialized
  /\ \E first \in ReqFiles, second \in {ReqFile(<<>>), NoReqFile} :
       /\ \/ /\ cmd.schedule = "nightly"
             /\ DictGet(ALL_REPOS, A).rolling_schedules # <<>>
          \/ first = <<>> /\ second = NoReqFile
       /\ requirements = << <<R1, ReqFile(first)>>, <<R2, second>> >>
  /\ markers \in {{}, {WsDir}}
  /\ pc = "idle"
  /\ stack = <<>>
  /\ skip_repo_names = {}
  /\ updated_heads = <<>>
  /\ log = <<>>
  /\ ncalls = 0
  /\ runNo = 0
  /\ start = Snapshot
  /\ prevRun = NoRun
  /\ lastCall = NoCall

NextRoll ==
  \/ StartDoRoll
  \/ RollAction
  \/ Return

SpecRoll == InitRoll /\ [][NextRoll]_vars

(***************************************************************************)
(* Properties of the roll.                                                 *)
(***************************************************************************)
\* The last step ran PyPackage.update as far as its loop over the
\* requirement files.
ReachedRequirements ==
  /\ lastCall.op = "PyPackage"
  /\ RepoDir(dirs[A]) = "none"
  /\ lastCall.pip_ok
  /\ FoundVersion(lastCall.output, 1).raised = "none"

\* A line of the form package==<old-version><trailing text>: the length of
\* package==<old-version>, the version ending at a space or a semicolon; 0 for
\* a line of another form.
PinnedSpec(package_name, line) ==
  LET n == Len(package_name)
      ends == { j \in (n + 3)..Len(line) : line[j] \in {" ", "\n", ";"} }
      stop == IF ends = {} THEN Len(line) + 1
              ELSE CHOOSE j \in ends : \A i \in ends : j <= i
  IN IF /\ n + 3 <= Len(line)
        /\ SubSeq(line, 1, n + 2) = package_name \o <<"=", "=">>
        /\ stop > n + 3
     THEN stop - 1
     ELSE 0

\* The file the bump is to leave.
BumpedLines(package_name, lines, version) ==
  LET bump(line) ==
        IF PinnedSpec(package_name, line) > 0
        THEN package_name \o <<"=", "=">> \o version
             \o SubSeq(line, PinnedSpec(package_name, line) + 1, Len(line))
        ELSE line
      rewritten == [k \in 1..Len(lines) |-> bump(lines[k])]
  IN IF \E k \in 1..Len(lines) : PinnedSpec(package_name, lines[k]) > 0
     THEN rewritten
     ELSE Append(lines, package_name \o <<"=", "=">> \o version \o <<"\n">>)

\* C11: PyPackage rewrites a requirement file so that every line
\* package==<old-version><trailing text> carries the new version and keeps
\* its trailing text, every other line stays as it is, and a file without
\* such a line gets package==<new-version> appended.
C11_VersionBump ==
  ReachedRequirements =>
    DictGet(requirements, R1).lines =
      BumpedLines(P, DictGet(lastCall.before, R1).lines,
                  FoundVersion(lastCall.output, 1).version)

\* The manifest of A after the first k actions of the schedule.
RECURSIVE ManifestAfter(_)
ManifestAfter(k) ==
  IF k = 0 THEN start.wt[A]
  ELSE ApplyAction(Schedule[k], A, ManifestAfter(k - 1), start.requirements,
                   TRUE, <<OtherLine>>).file

\* C14: a roll applies the actions of its schedule one at a time in list
\* order; when an action fails the roll ends with that error, no later action
\* is applied, and the manifest keeps what the earlier actions wrote.
C14_RollInOrder ==
  (cmd.name = "do_roll" /\ pc # "idle") =>
    LET n == Len(log)
    IN /\ \A k \in 1..n :
            /\ log[k].op = Schedule[k].kind
            /\ log[k].arg[1] = k
            /\ k < n => log[k].arg[2] = "none"
       /\ n >= 1 => wt[A] = ManifestAfter(n)
       /\ (n >= 1 /\ log[n].arg[2] # "none") =>
            /\ stack = <<>>
            /\ pc = IF log[n].arg[2] = "CLIError" THEN "error" ELSE "crash"
       /\ pc = "done" =>
            /\ n = Len(Schedule)
            /\ \A k \in 1..n : log[k].arg[2] = "none"

\* A roll has ended in an error at its second action, the pin the first
\* action moved still in the manifest and the third action not applied.
C14_Witness ==
  /\ cmd.name = "do_roll"
  /\ pc = "error"
  /\ Len(log) = 2
  /\ Len(Schedule) = 3
  /\ wt[A] # start.wt[A]
  /\ wt[A] = ManifestAfter(1)

(***************************************************************************)
(* The pin command, run in the working tree of A.                          *)
(***************************************************************************)
\* A registry of A with the dependencies deps, B with or without submodules.
PinRegistry(deps, b_submodules) ==
  RegisterAll(<< RepoInfo(A, deps, FALSE), RepoInfo(B, <<>>, b_submodules),
                 RepoInfo(D, <<>>, TRUE) >>)

PinRegistries ==
  { PinRegistry(deps, b_submodules) :
      deps \in {<<>>, <<B>>, <<B, D>>, <<D, B>>}, b_submodules \in BOOLEAN }

\* `pin [--require-upstream]` on the command line.
PinCmd(require_upstream) ==
  [name |-> "do_pin", names |-> <<A>>, require_upstream |-> require_upstream]

\* The manifest an earlier pin left in A, under the registry of that time,
\* when every dependency was at revision v.
PinnedEarlier(all_repos, v) ==
  Update(all_repos, AllPresent, [n \in Names |-> v], [n \in Names |-> v],
         NoFile, DictGet(all_repos, A), FALSE).file

\* How a command that raised ends: exit code 1 for a CLIError.
Ended(raised) ==
  CASE raised = "none" -> "done"
    [] raised = "CLIError" -> "error"
    [] OTHER -> "crash"

\* do_pin: the repository of the working directory, then pins.update.
DoPin ==
  /\ cmd.name = "do_pin"
  /\ runNo < MaxRuns
  /\ \E res \in { IF GetFromDir(ALL_REPOS, dirs, markers, cmd.names[1])
                        # "none"
                   THEN Failed(GetFromDir(ALL_REPOS, dirs, markers,
                                          cmd.names[1]),
                               wt[cmd.names[1]])
                   ELSE Update(ALL_REPOS, dirs, head, remoteTip,
                               wt[cmd.names[1]],
                               DictGet(ALL_REPOS, cmd.names[1]),
                               cmd.require_upstream) } :
       /\ wt' = [wt EXCEPT ![cmd.names[1]] = res.file]
       /\ pc' = Ended(res.raised)
       /\ lastCall' = [NoCall EXCEPT !.op = "do_pin",
                                     !.raised = res.raised,
                                     !.ret = res.ret,
                                     !.wrote = res.wrote,
                                     !.before = wt[cmd.names[1]]]
  /\ runNo' = runNo + 1
  /\ prevRun' = [pc |-> pc, log |-> log]
  /\ UNCHANGED <<ALL_REPOS, dirs, head, commits, remoteTip, subInit, stack,
                 skip_repo_names, updated_heads, log, ncalls, cmd, start,
                 requirements, markers>>

\* Between two commands a developer commits in the working tree of a
\* dependency.
CommitInDep ==
  /\ cmd.name = "do_pin"
  /\ runNo = 1
  /\ \E d \in {B, D} :
       /\ dirs[d] = "repo"
       /\ head' = [head EXCEPT ![d] = NextRev(head[d])]
  /\ pc' = "idle"
  /\ UNCHANGED <<ALL_REPOS, dirs, wt, commits, remoteTip, subInit, stack,
                 skip_repo_names, updated_heads, log, ncalls, cmd, runNo,
                 start, prevRun, lastCall, requirements, markers>>

InitPin ==
  /\ ALL_REPOS \in PinRegistries
  /\ cmd \in { PinCmd(u) : u \in BOOLEAN }
  /\ \E dd \in {"repo", "plain", "absent"} :
       dirs = [AllPresent EXCEPT ![D] = dd]
  /\ \E hb \in Revs, hd \in Revs :
       head = [n \in Names |-> CASE n = B -> hb [] n = D -> hd
                                 [] OTHER -> <<"1">>]
  /\ remoteTip = [n \in Names |-> <<"1">>]
  /\ commits = [n \in Names |-> [v \in Revs |-> NoFile]]
  /\ \E old \in PinRegistries, v \in Revs, present \in BOOLEAN :
       wt = [n \in Names |->
               IF n = A /\ present THEN PinnedEarlier(old, v) ELSE NoFile]
  /\ subInit = NothingInitialized
  /\ pc = "idle"
  /\ stack = <<>>
  /\ skip_repo_names = {}
  /\ updated_heads = <<>>
  /\ log = <<>>
  /\ ncalls = 0
  /\ runNo = 0
  /\ requirements = NoRequirements
  /\ markers \in {{}, {WsDir}}
  /\ start = Snapshot
  /\ prevRun = NoRun
  /\ lastCall = NoCall

NextPin ==
  \/ DoPin
  \/ CommitInDep

SpecPin == InitPin /\ [][NextPin]_vars

(***************************************************************************)
(* Properties of the pin command.                                          *)
(***************************************************************************)
\* The dependencies declared by the repository pin runs in.
PinDeps == DictGet(ALL_REPOS, A).deps
PinDepNames == { PinDeps[i] : i \in 1..Len(PinDeps) }

\* The manifest in A, as the tool reads it.
PinManifest == LoadPinFile(wt[A])

PinSucceeded == lastCall.op = "do_pin" /\ pc = "done"

\* C12: after pin succeeds on a repository with declared dependencies the
\* manifest was written and, for every declared dependency, holds the
\* revision its working tree is at, its read-only URL and a submodule flag
\* equal to the dependency's submodules attribute; with no declared
\* dependency pin writes nothing.
C12_PinRecords ==
  PinSucceeded =>
    IF PinDeps = <<>>
    THEN ~lastCall.wrote /\ wt[A] = lastCall.before
    ELSE /\ lastCall.wrote
         /\ \A d \in PinDepNames :
              /\ DictHas(PinManifest.pinned_versions, d)
              /\ DictGet(PinManifest.pinned_versions, d) = head[d]
              /\ DictHas(PinManifest.origins, d)
              /\ DictGet(PinManifest.origins, d) = RoUrl(d)
              /\ DictHas(PinManifest.submodules, d)
                   <=> DictGet(ALL_REPOS, d).submodules

\* C13: the manifest pin writes holds entries for the declared dependencies
\* only: pins and origins for each of them and for no other name, submodule
\* flags for those of them that have submodules and for no other name.
C13_PinOverwrites ==
  (PinSucceeded /\ lastCall.wrote) =>
    /\ DictKeys(PinManifest.pinned_versions) = PinDepNames
    /\ DictKeys(PinManifest.origins) = PinDepNames
    /\ DictKeys(PinManifest.submodules) =
         { d \in PinDepNames : DictGet(ALL_REPOS, d).submodules }

\* A pin has just ended in an error.
PinFailed ==
  /\ cmd.name = "do_pin"
  /\ runNo' = runNo + 1
  /\ pc' \in {"error", "crash"}

\* C24: when pin fails for any declared dependency, because its directory
\* is no working tree or, with --require-upstream, because its revision is
\* not on origin/<tracking branch>, the manifest is exactly as it was before
\* the command: the entries of the dependencies processed before the
\* failure are not written.
C24_FailedPinWritesNothing ==
  [][PinFailed => (wt' = wt /\ ~lastCall'.wrote)]_vars

\* A pin with --require-upstream has failed at its second dependency, D,
\* whose revision is ahead of the remote branch, after B, whose revision
\* differs from the pin the manifest holds for it, was processed.
C24_Witness ==
  /\ lastCall.op = "do_pin"
  /\ pc = "error"
  /\ cmd.require_upstream
  /\ PinDeps = <<B, D>>
  /\ \A n \in {A, B, D} : dirs[n] = "repo"
  /\ RevNo(head[B]) <= RevNo(remoteTip[B])
  /\ RevNo(head[D]) > RevNo(remoteTip[D])
  /\ DictHas(PinManifest.pinned_versions, B)
  /\ DictGet(PinManifest.pinned_versions, B) # head[B]
  /\ wt[A] = lastCall.before

(***************************************************************************)
(* The registry: descriptors constructed one after the other, from the     *)
(* empty registry on.                                                      *)
(***************************************************************************)
\* The descriptors a module may construct.
Descriptors ==
  { RepoInfo(n, <<>>, sub) : n \in {A, B, D}, sub \in BOOLEAN }

\* RepoInfo(...) is constructed: the dataclass runs __post_init__.
RegisterRepo ==
  /\ cmd.name = "register"
  /\ Len(log) < MaxRegs
  /\ \E info \in Descriptors :
       /\ ALL_REPOS' = Register(ALL_REPOS, info).all_repos
       /\ log' = Append(log, Event("RepoInfo", info.name, info))
       /\ lastCall' = [op |-> "RepoInfo", info |-> info,
                       raised |-> Register(ALL_REPOS, info).raised,
                       before |-> ALL_REPOS]
  /\ UNCHANGED <<dirs, head, wt, commits, remoteTip, subInit, pc, stack,
                 skip_repo_names, updated_heads, ncalls, cmd, runNo, start,
                 prevRun, requirements, markers>>

InitRegistry ==
  /\ ALL_REPOS = <<>>
  /\ cmd = [name |-> "register"]
  /\ dirs = [n \in Names |-> "absent"]
  /\ head = [n \in Names |-> <<"1">>]
  /\ wt = [n \in Names |-> NoFile]
  /\ commits = [n \in Names |-> [v \in Revs |-> NoFile]]
  /\ remoteTip = [n \in Names |-> <<"1">>]
  /\ subInit = NothingInitialized
  /\ pc = "idle"
  /\ stack = <<>>
  /\ skip_repo_names = {}
  /\ updated_heads = <<>>
  /\ log = <<>>
  /\ ncalls = 0
  /\ runNo = 0
  /\ requirements = NoRequirements
  /\ markers = {}
  /\ start = Snapshot
  /\ prevRun = NoRun
  /\ lastCall = NoCall

NextRegistry == RegisterRepo

SpecRegistry == InitRegistry /\ [][NextRegistry]_vars

\* The first descriptor constructed under a name.
FirstRegistered(name) ==
  log[CHOOSE k \in 1..Len(log) :
        /\ log[k].repo = name
        /\ \A j \in 1..(k - 1) : log[j].repo # name].arg

\* C16: constructing a descriptor under a name the registry holds raises
\* and leaves the registry as it was; the registry holds every name
\* constructed so far once, with the first descriptor constructed under it.
C16_RegisterOnce ==
  /\ lastCall.op = "RepoInfo" =>
       IF DictHas(lastCall.before, lastCall.info.name)
       THEN lastCall.raised = "ValueError" /\ ALL_REPOS = lastCall.before
       ELSE /\ lastCall.raised = "none"
            /\ ALL_REPOS = Append(lastCall.before,
                                  <<lastCall.info.name, lastCall.info>>)
  /\ DictKeys(ALL_REPOS) = { log[k].repo : k \in 1..Len(log) }
  /\ \A i, j \in 1..Len(ALL_REPOS) :
       ALL_REPOS[i][1] = ALL_REPOS[j][1] => i = j
  /\ \A i \in 1..Len(ALL_REPOS) :
       ALL_REPOS[i][2] = FirstRegistered(ALL_REPOS[i][1])

\* A second descriptor for a registered name, different from the first, has
\* just been refused.
C16_Witness ==
  /\ lastCall.op = "RepoInfo"
  /\ lastCall.raised = "ValueError"
  /\ DictGet(ALL_REPOS, lastCall.info.name) # lastCall.info
  /\ Len(ALL_REPOS) >= 2

(***************************************************************************)
(* The workspace marker (workspace_meta.py) and the init command.  A       *)
(* directory is the sequence of names on its path from the root.           *)
(***************************************************************************)
\* do_init, run in the directory cwd.
DoInit ==
  /\ cmd.name = "do_init"
  /\ runNo < MaxInits
  /\ \E cwd \in Directories :
     \E ws \in { WorkspaceFind(markers, cwd) } :
       /\ markers' = IF ws.found THEN markers ELSE Initialize(markers, cwd)
       /\ log' = Append(log,
                        IF ws.found
                        THEN Event("stdout", cwd,
                                   <<"Running within existing workspace: ",
                                     ws.dir>>)
                        ELSE Event("stdout", cwd,
                                   <<"Initialized workspace at: ", cwd>>))
       /\ pc' = Ended(ws.raised)
       /\ lastCall' = [op |-> "do_init", cwd |-> cwd, raised |-> ws.raised,
                       before |-> markers]
  /\ runNo' = runNo + 1
  /\ UNCHANGED <<ALL_REPOS, dirs, head, wt, commits, remoteTip, subInit, stack,
                 skip_repo_names, updated_heads, ncalls, cmd, start, prevRun,
                 requirements>>

InitInit ==
  /\ ALL_REPOS = RegistryStar
  /\ cmd = [name |-> "do_init"]
  /\ dirs = [n \in Names |-> "absent"]
  /\ head = [n \in Names |-> <<"1">>]
  /\ wt = [n \in Names |-> NoFile]
  /\ commits = [n \in Names |-> [v \in Revs |-> NoFile]]
  /\ remoteTip = [n \in Names |-> <<"1">>]
  /\ subInit = NothingInitialized
  /\ pc = "idle"
  /\ stack = <<>>
  /\ skip_repo_names = {}
  /\ updated_heads = <<>>
  /\ log = <<>>
  /\ ncalls = 0
  /\ runNo = 0
  /\ requirements = NoRequirements
  /\ markers = {}
  /\ start = Snapshot
  /\ prevRun = NoRun
  /\ lastCall = NoCall

NextInit == DoInit

SpecInit == InitInit /\ [][NextInit]_vars

\* Directory a is d or encloses it.
Encloses(a, d) == Len(a) <= Len(d) /\ SubSeq(d, 1, Len(a)) = a

\* C17: init in a directory with no marker file in it or above it writes
\* the marker file there and reports "Initialized workspace at: D"; init in
\* a workspace root D or below it reports "Running within existing
\* workspace: D" and writes nothing; no marked directory encloses another.
C17_InitNeverNests ==
  /\ lastCall.op = "do_init" =>
       /\ pc = "done"
       /\ IF \E d \in lastCall.before : Encloses(d, lastCall.cwd)
          THEN /\ markers = lastCall.before
               /\ \E d \in lastCall.before :
                    /\ Encloses(d, lastCall.cwd)
                    /\ log[Len(log)].arg =
                         <<"Running within existing workspace: ", d>>
          ELSE /\ markers = lastCall.before \cup {lastCall.cwd}
               /\ log[Len(log)].arg =
                    <<"Initialized workspace at: ", lastCall.cwd>>
  /\ \A a \in markers, d \in markers : Encloses(a, d) => a = d

====
